---- MODULE Spec2Model ----
(***************************************************************************)
(* Model of the cached, rate-limited access layer of notion-ultimate-tool: *)
(*   RateLimiter            src/core/utils.py                              *)
(*   LocalCache             src/core/database.py                           *)
(*   NotionAPI              src/core/notion_api.py                         *)
(*   Config                 src/core/config.py                             *)
(*                                                                         *)
(* Text is modelled as sequences of one-character strings, so that key     *)
(* construction, hashing and SQL LIKE matching are computed, not assumed.  *)
(* Time is a discrete clock in ticks; TicksPerSecond ticks make a second.  *)
(***************************************************************************)
EXTENDS Integers, Sequences, FiniteSets, TLC

\* ------------------------------------------------------------------ bounds

\* Horizons of the clock, per specification: no step advances `now` beyond
\* the horizon of the run.
ThrottleHorizon == 9

Throttle2Horizon == 7

RetryHorizon == 48

CacheHorizon == 14

FacadeHorizon == 10

\* Largest max_retries passed to _execute_with_retry in the executor runs.
MaxRetriesBound == 4

\* Items the remote returns per page of a query (the remote's page size).
PageSize == 1

\* Number of page ids of the remote database.
PageCount == 2

\* Largest version a remote page reaches through updates.
MaxVersion == 1

\* Horizon of the clock of the runs of reads, before any long pause.
ReadsHorizon == 6

\* Number of long pauses, of the staleness window each, in the runs of reads.
StaleWindows == 2

\* Horizon of the clock of the runs of writes.
WriteHorizon == 20

\* Horizon of the clock of the batch runs.
BatchHorizon == 10

\* Number of pages of the remote database of the batch runs.
BatchPages == 3

\* Largest number of items of a batch.
BatchLen == 3

\* operations of the liveness runs start up to this clock value
LiveStartBy == 2

\* the clock value the liveness runs are cut off at, beyond the longest operation
LiveHorizon == 120

\* the clock value the runs over configured rates are cut off at
RatesHorizon == 8

\* the clock value the batch pacing runs are cut off at
PaceHorizon == 14

\* the clock value the runs of a reader beside a writer are cut off at
RaceHorizon == 8

\* the days the runs of the key rotation manager last
RotationDays == 2

\* the number of keys the runs of the key rotation manager generate
MaxTokens == 3

\* create_key(..., expiry_days=90)
DefaultExpiryDays == 90

\* rotate_key(..., grace_period_hours=1)
DefaultGraceHours == 1

\* ------------------------------------------------------- program constants

\* RateLimiter(max_requests_per_second=3), notion_api.py:25
MaxRequestsPerSecond == 3

\* max_retries=3, the default of _execute_with_retry, notion_api.py:28
DefaultMaxRetries == 3

\* cache_ttl: int = 300, the default of query_database, notion_api.py:54
DefaultCacheTtl == 300

\* delay_between_requests: float = 0.4, the default of batch_update_pages,
\* notion_api.py:155, in milliseconds
DefaultDelayMs == 400

\* Clock resolution: a tick is half of the limiter's minimum interval.
TicksPerSecond == 2 * MaxRequestsPerSecond

\* self.min_interval = 1.0 / max_requests_per_second, in ticks
MinInterval == TicksPerSecond \div MaxRequestsPerSecond

\* time.time() at construction is far from the epoch value 0.0 that
\* last_request_time starts with: the first wait() never sleeps.
StartTime == MinInterval

\* time.sleep(seconds) on a clock of whole ticks: the sleep lasts at least the
\* time asked, so the clock advances by the least number of ticks that covers
\* it (ms is the time asked, in milliseconds)
SleepTicks(ms) == (ms * TicksPerSecond + 999) \div 1000

\* ------------------------------------------------------------ python values

\* None, as a value and as an argument
PyNone == <<"None">>

\* None for an optional int (ttl, max_age); also SQL NULL in expires_at
NoInt == -1

\* a list of items
PyList(items) == <<"list", items>>

\* a page object (a non-empty dict): its id and the version of its properties
PyPage(id, version) == <<"dict", id, version>>

\* Python truthiness, as used by `if cached:`; None and the empty list are falsy
Truthy(v) == v # PyNone /\ v # PyList(<<>>)

\* Python truthiness of an optional int, as used by `if ttl:` and `if max_age:`
TruthyInt(n) == n # NoInt /\ n # 0

\* ------------------------------------------------------------------ text

QUERY == <<"q", "u", "e", "r", "y">>

PAGE == <<"p", "a", "g", "e">>

COLON == <<":">>

\* the literal "query:*" that update_page and create_page pass
QueryStar == QUERY \o COLON \o <<"*">>

\* f"page:{page_id}"
PageColon(page_id) == PAGE \o COLON \o page_id

RECURSIVE Join(_, _)
\* sep.join(parts)
Join(sep, parts) ==
    IF parts = <<>> THEN <<>>
    ELSE IF Len(parts) = 1 THEN parts[1]
    ELSE parts[1] \o sep \o Join(sep, Tail(parts))

\* [str(arg) for arg in args if arg is not None]
NotNone(args) == SelectSeq(args, LAMBDA a : a # PyNone)

\* Two hex digits per character (the character's ASCII code).
HexOf(c) ==
    CASE c = "q" -> <<"7", "1">>
      [] c = "u" -> <<"7", "5">>
      [] c = "e" -> <<"6", "5">>
      [] c = "r" -> <<"7", "2">>
      [] c = "y" -> <<"7", "9">>
      [] c = "p" -> <<"7", "0">>
      [] c = "a" -> <<"6", "1">>
      [] c = "g" -> <<"6", "7">>
      [] c = "b" -> <<"6", "2">>
      [] c = "c" -> <<"6", "3">>
      [] c = "d" -> <<"6", "4">>
      [] c = "f" -> <<"6", "6">>
      [] c = "s" -> <<"7", "3">>
      [] c = "Q" -> <<"5", "1">>
      [] c = ":" -> <<"3", "a">>
      [] c = "*" -> <<"2", "a">>
      [] c = "%" -> <<"2", "5">>
      [] c = "_" -> <<"5", "f">>
      [] c = "1" -> <<"3", "1">>
      [] c = "2" -> <<"3", "2">>
      [] c = "3" -> <<"3", "3">>
      [] OTHER -> <<"0", "0">>

HexDigits ==
    <<"0", "1", "2", "3", "4", "5", "6", "7", "8", "9", "a", "b", "c", "d", "e", "f">>

\* the value of a hex digit
HexValue(h) == CHOOSE i \in 0 .. 15 : HexDigits[i + 1] = h

\* the byte a character encodes to
Code(c) == 16 * HexValue(HexOf(c)[1]) + HexValue(HexOf(c)[2])

RECURSIVE HexText(_)
\* the bytes of a text, two hex digits each
HexText(s) ==
    IF s = <<>> THEN <<>> ELSE HexOf(Head(s)) \o HexText(Tail(s))

RECURSIVE Mix(_, _)
\* a digit that every byte of the text s enters, weighted by its position
\* (i is the position of the first byte of s)
Mix(s, i) ==
    IF s = <<>> THEN 0 ELSE (i * Code(Head(s)) + Mix(Tail(s), i + 1)) % 16

\* hashlib.md5(s.encode()).hexdigest(): a digest over the hex alphabet. It is
\* taken to be free of collisions (one digest per text), and it mixes: its
\* leading digit depends on every byte, so texts with a common prefix have
\* digests without one.
Md5Hex(s) == <<HexDigits[Mix(s, 1) + 1]>> \o HexText(s)

\* ASCII case folding of SQLite's LIKE
Fold(c) == IF c = "Q" THEN "q" ELSE c

RECURSIVE Like(_, _)
\* SQLite `text LIKE pat`: % matches any run of characters, _ exactly one,
\* every other character (the asterisk included) matches itself up to case.
Like(text, pat) ==
    IF pat = <<>> THEN text = <<>>
    ELSE IF Head(pat) = "%"
         THEN Like(text, Tail(pat)) \/ (text # <<>> /\ Like(Tail(text), pat))
    ELSE IF text = <<>> THEN FALSE
    ELSE IF Head(pat) = "_" THEN Like(Tail(text), Tail(pat))
    ELSE Fold(Head(text)) = Fold(Head(pat)) /\ Like(Tail(text), Tail(pat))

\* whether text starts with prefix
StartsWith(text, prefix) ==
    Len(text) >= Len(prefix) /\ SubSeq(text, 1, Len(prefix)) = prefix

\* ------------------------------------------------------------------ LocalCache

\* json.dumps(value): the TEXT stored in the value column
JsonDumps(v) == <<"json", v>>

\* json.loads(text)
JsonLoads(text) == text[2]

\* A row of table cache; key is the primary key, so a table is a function
\* from the keys present to their rows.
Row(value, created_at, expires_at) ==
    [value |-> value, created_at |-> created_at, expires_at |-> expires_at]

\* the rows of the table under the given keys: what a DELETE leaves
Keep(table, keys) == [k \in keys |-> table[k]]

\* a get that ignores max_age
SelectValueAnyAge(table, key, max_age, clock) ==
    IF key \notin DOMAIN table THEN PyNone ELSE table[key].value

\* SELECT value FROM cache WHERE key = ? [AND created_at > ?]
SelectValue(table, key, max_age, clock) ==
    IF key \notin DOMAIN table THEN PyNone
    ELSE IF TruthyInt(max_age)
              /\ ~(table[key].created_at > clock - max_age * TicksPerSecond)
         THEN PyNone
    ELSE table[key].value

\* LocalCache.get(key, max_age)
CacheGet(table, key, max_age, clock) ==
    LET row == SelectValue(table, key, max_age, clock)
    IN  IF row # PyNone THEN JsonLoads(row) ELSE PyNone

\* expires_at of set(): datetime.now() + timedelta(seconds=ttl) if ttl else None
ExpiresAt(ttl, clock) ==
    IF TruthyInt(ttl) THEN clock + ttl * TicksPerSecond ELSE NoInt

\* a set that stores nothing
CacheSetDropped(table, key, value, ttl, clock) == table

\* LocalCache.set(key, value, ttl): INSERT OR REPLACE
CacheSet(table, key, value, ttl, clock) ==
    LET row == Row(JsonDumps(value), clock, ExpiresAt(ttl, clock))
    IN  [k \in DOMAIN table \cup {key} |-> IF k = key THEN row ELSE table[k]]

\* an invalidate that empties the table
CacheInvalidateClears(table, key) == Keep(table, {})

\* LocalCache.invalidate(key): DELETE FROM cache WHERE key = ?
CacheInvalidate(table, key) ==
    Keep(table, {k \in DOMAIN table : k # key})

\* an UPDATE of value and created_at that keeps the expires_at of the row it
\* finds
InsertOrReplaceKeepsExpiry(table, key, row) ==
    [k \in DOMAIN table \cup {key} |->
        IF k # key THEN table[k]
        ELSE IF key \in DOMAIN table
             THEN [row EXCEPT !.expires_at = table[key].expires_at]
             ELSE row]

\* INSERT OR REPLACE INTO cache (key, value, created_at, expires_at): one
\* statement, the row written whole over the row of the same primary key
InsertOrReplace(table, key, row) ==
    [k \in DOMAIN table \cup {key} |-> IF k = key THEN row ELSE table[k]]

\* LocalCache.invalidate_pattern(pattern): DELETE FROM cache WHERE key LIKE ?
CacheInvalidatePattern(table, pattern) ==
    Keep(table, {k \in DOMAIN table : ~Like(k, pattern)})

\* LocalCache.clear(): DELETE FROM cache
CacheClear(table) == Keep(table, {})

\* a cleanup that removes every entry stored with a ttl, expired or not
CacheCleanupEveryTtl(table, clock) ==
    Keep(table, {k \in DOMAIN table : table[k].expires_at = NoInt})

\* LocalCache.cleanup_expired():
\* DELETE FROM cache WHERE expires_at IS NOT NULL AND expires_at < ?
CacheCleanupExpired(table, clock) ==
    Keep(table, {k \in DOMAIN table :
                    ~(table[k].expires_at # NoInt /\ table[k].expires_at < clock)})

\* ------------------------------------------------------------------ state

VARIABLES
    now,                \* the wall clock, in ticks (time.time(), datetime.now())
    horizon,            \* the clock value at which the run is cut off
    config,             \* the Config the NotionAPI was constructed with
    last_request_time,  \* RateLimiter.last_request_time
    prev_grant,         \* the grant before the one last_request_time records
    cache,              \* table cache of LocalCache: key -> row
    remote,             \* the remote database: page number -> version, or Absent
    pc,                 \* position of each caller
    call,               \* the call each caller is in (or made last), with its arguments
    loc,                \* local variables of each caller's frames
    obs,                \* what each caller's call has done so far, and its result
    keys,               \* KeyRotationManager.keys: service -> list of key records
    tokens              \* the number of keys secrets.token_urlsafe has generated

vars == <<now, horizon, config, last_request_time, prev_grant, cache, remote, pc, call, loc,
         obs, keys, tokens>>

Digits == <<"1", "2", "3", "4", "5">>

\* a key salted with the second it is generated in
GenerateKeySalted(args) ==
    Md5Hex(Join(COLON, NotNone(args))
              \o <<Digits[((now \div TicksPerSecond) % Len(Digits)) + 1]>>)

\* LocalCache.generate_key(*args)
GenerateKey(args) == Md5Hex(Join(COLON, NotNone(args)))

\* one caller, and two concurrent callers
OneCaller == {"t1"}

TwoCallers == {"t1", "t2"}

\* ------------------------------------------------------------------ remote

Absent == -1

\* the id of the n-th page
PageId(n) == <<Digits[n]>>

PageNumbers == 1 .. PageCount

\* config.database_id
ConfigDatabaseId == <<"d">>

FilterArgs == {PyNone, <<"f">>}

SortArgs == {PyNone}

RECURSIVE ItemsFrom(_, _, _)
\* the pages from the n-th on of the database that exist and pass the filter, in
\* id order; a filter keeps the pages that were updated at least once
ItemsFrom(db, filter, n) ==
    IF n > Len(db) THEN <<>>
    ELSE IF db[n] # Absent /\ (filter = PyNone \/ db[n] >= 1)
         THEN <<PyPage(PageId(n), db[n])>> \o ItemsFrom(db, filter, n + 1)
         ELSE ItemsFrom(db, filter, n + 1)

Reverse(s) == [i \in 1 .. Len(s) |-> s[Len(s) + 1 - i]]

\* what a query matches, in the order the sort asks for
RemoteItems(db, filter, sorts) ==
    IF sorts = PyNone THEN ItemsFrom(db, filter, 1)
    ELSE Reverse(ItemsFrom(db, filter, 1))

Min(a, b) == IF a < b THEN a ELSE b

\* client.databases.query(...): one page of results from start_cursor
RemoteQuery(db, filter, sorts, start_cursor) ==
    LET items == RemoteItems(db, filter, sorts)
        from  == IF start_cursor = NoInt THEN 0 ELSE start_cursor
        upto  == Min(from + PageSize, Len(items))
        more  == from + PageSize < Len(items)
    IN  [results     |-> SubSeq(items, from + 1, upto),
         has_more    |-> more,
         next_cursor |-> IF more THEN upto ELSE NoInt]

\* the page numbers not yet in the database
FreeNumbers(db) == {n \in DOMAIN db : db[n] = Absent}

\* the number the next created page gets
NextNumber(db) == CHOOSE n \in FreeNumbers(db) : \A m \in FreeNumbers(db) : n <= m

\* ------------------------------------------------------------------ callers

NoResult == [kind |-> "none", value |-> PyNone, error |-> "none"]

Returned(v) == [kind |-> "return", value |-> v, error |-> "none"]

Raised(e) == [kind |-> "raise", value |-> PyNone, error |-> e]

NoCall ==
    [op |-> "none", page |-> 0, database_id |-> PyNone, filter |-> PyNone,
     sorts |-> PyNone, use_cache |-> TRUE, cache_ttl |-> NoInt,
     max_retries |-> 0, key |-> <<>>, value |-> PyNone, ttl |-> NoInt,
     max_age |-> NoInt, pattern |-> <<>>, args |-> <<>>, updates |-> <<>>,
     delay_between_requests |-> 0, service |-> "none", version |-> 0,
     api_key |-> 0, expiry_days |-> NoInt, grace_period_hours |-> 0]

NoLoc ==
    [fn |-> "none", attempt |-> 0, max_retries |-> 0, current_time |-> 0,
     sleep_time |-> 0, wait_time |-> 0, cache_key |-> <<>>, results |-> <<>>,
     has_more |-> TRUE, start_cursor |-> NoInt, response |-> PyNone,
     i |-> 0, batch |-> <<>>, error |-> "none",
     value_json |-> PyNone, expires_at |-> NoInt, created_at |-> NoInt,
     row |-> PyNone]

NoObs ==
    [outcomes |-> <<>>, sleeps |-> <<>>, waits |-> 0, exec_calls |-> 0,
     failures |-> 0, pages |-> <<>>, hit |-> FALSE, missed |-> FALSE,
     result |-> NoResult, granted_at |-> NoInt, returned_at |-> NoInt,
     cache_before |-> <<>>, invalidations |-> 0, issued |-> <<>>, ended |-> <<>>,
     delays |-> <<>>]

\* Config() with no environment variable set but the two required ones
DefaultConfig ==
    [cache_enabled |-> TRUE, cache_ttl |-> DefaultCacheTtl,
     rate_limit_requests_per_second |-> MaxRequestsPerSecond]

\* the configurations a NotionAPI is constructed with: CACHE_ENABLED set or not
Configs == {[DefaultConfig EXCEPT !.cache_enabled = b] : b \in BOOLEAN}

\* the state after construction with configuration cfg, with the given
\* callers and remote database
InitConfigured(callers, db, end, cfg) ==
    /\ now = StartTime
    /\ horizon = end
    /\ keys = <<>>
    /\ tokens = 0
    /\ config = cfg
    /\ last_request_time = 0
    /\ prev_grant = NoInt
    /\ cache = <<>>
    /\ remote = db
    /\ pc = [t \in callers |-> "idle"]
    /\ call = [t \in callers |-> NoCall]
    /\ loc = [t \in callers |-> NoLoc]
    /\ obs = [t \in callers |-> NoObs]

\* the state after construction with the default configuration
InitWith(callers, db, end) == InitConfigured(callers, db, end, DefaultConfig)

\* the empty remote database
NoDatabase == [n \in PageNumbers |-> Absent]

\* the remote databases a run may start with: the first n pages exist
StartDatabases ==
    {[n \in PageNumbers |-> IF n <= k THEN 0 ELSE Absent] : k \in 0 .. PageCount}

\* the outcome an attempt sequence ended with
LastOf(outcomes) == outcomes[Len(outcomes)]

\* what is observed of a facade call when it starts: the cache as it finds it
StartObs == [NoObs EXCEPT !.cache_before = cache]

\* the page_id a frame of update_page or get_page of caller t was called with:
\* the caller's argument, or update["page_id"] of the batch item in progress
PageArg(t) ==
    IF call[t].op = "batch_update_pages"
    THEN call[t].updates[loc[t].i]
    ELSE call[t].page

\* caller t's call ends with result r, o being what has been observed of it:
\* its frames are gone
Finish(t, r, o) ==
    /\ pc' = [pc EXCEPT ![t] = "idle"]
    /\ loc' = [loc EXCEPT ![t] = NoLoc]
    /\ obs' = [obs EXCEPT ![t] = [o EXCEPT !.result = r, !.returned_at = now]]

\* ------------------------------------------------------------------ RateLimiter

\* a limiter that sleeps the time already elapsed instead of the remainder
SleepTimeElapsed(current_time, last) ==
    IF current_time - last < MinInterval THEN current_time - last ELSE 0

\* sleep_time of wait(): min_interval - time_since_last when time_since_last
\* < min_interval, and no sleep (0) otherwise
SleepTime(current_time, last) ==
    IF current_time - last < MinInterval
    THEN MinInterval - (current_time - last)
    ELSE 0

\* wait(): current_time = time.time()
WaitRead(t) ==
    /\ pc[t] = "w_read"
    /\ loc' = [loc EXCEPT ![t].current_time = now]
    /\ pc' = [pc EXCEPT ![t] = "w_cmp"]
    /\ UNCHANGED <<now, horizon, config, last_request_time, prev_grant, cache, remote, call, obs, keys, tokens>>

\* wait(): time_since_last = current_time - self.last_request_time, compared
WaitCompare(t) ==
    /\ pc[t] = "w_cmp"
    /\ LET sleep_time == SleepTime(loc[t].current_time, last_request_time)
       IN  /\ loc' = [loc EXCEPT ![t].sleep_time = sleep_time]
           /\ pc' = [pc EXCEPT ![t] = IF sleep_time > 0 THEN "w_sleep" ELSE "w_write"]
    /\ UNCHANGED <<now, horizon, config, last_request_time, prev_grant, cache, remote, call, obs, keys, tokens>>

\* wait(): time.sleep(sleep_time)
WaitSleep(t) ==
    /\ pc[t] = "w_sleep"
    /\ now + loc[t].sleep_time <= horizon
    /\ now' = now + loc[t].sleep_time
    /\ pc' = [pc EXCEPT ![t] = "w_write"]
    /\ UNCHANGED <<horizon, config, last_request_time, prev_grant, cache, remote, call, loc, obs, keys, tokens>>

\* wait(): self.last_request_time = time.time(), and return: the grant
WaitWrite(t) ==
    /\ pc[t] = "w_write"
    /\ last_request_time' = now
    /\ prev_grant' = IF last_request_time = 0 THEN NoInt ELSE last_request_time
    /\ loc' = [loc EXCEPT ![t].current_time = 0, ![t].sleep_time = 0]
    /\ IF call[t].op = "wait"
       THEN /\ pc' = [pc EXCEPT ![t] = "idle"]
            /\ obs' = [obs EXCEPT ![t].granted_at = now, ![t].waits = @ + 1,
                                  ![t].result = Returned(PyNone),
                                  ![t].returned_at = now]
       ELSE /\ pc' = [pc EXCEPT ![t] = "x_call"]
            /\ obs' = [obs EXCEPT ![t].granted_at = now, ![t].waits = @ + 1]
    /\ UNCHANGED <<now, horizon, config, cache, remote, call, keys, tokens>>

\* a caller invokes rate_limiter.wait()
CallWait(t) ==
    /\ pc[t] = "idle"
    /\ call' = [call EXCEPT ![t] = [NoCall EXCEPT !.op = "wait"]]
    /\ loc' = [loc EXCEPT ![t] = NoLoc]
    /\ obs' = [obs EXCEPT ![t] = NoObs]
    /\ pc' = [pc EXCEPT ![t] = "w_read"]
    /\ UNCHANGED <<now, horizon, config, last_request_time, prev_grant, cache, remote, keys, tokens>>

\* time passes: one tick
Tick ==
    /\ now + 1 <= horizon
    /\ now' = now + 1
    /\ UNCHANGED <<horizon, config, last_request_time, prev_grant, cache, remote, pc, call, loc, obs, keys, tokens>>

\* time passes: one second
TickSecond ==
    /\ now + TicksPerSecond <= horizon
    /\ now' = now + TicksPerSecond
    /\ UNCHANGED <<horizon, config, last_request_time, prev_grant, cache, remote, pc, call, loc, obs, keys, tokens>>

\* the staleness window, in ticks
Window == DefaultCacheTtl * TicksPerSecond

\* time passes: a long pause of the staleness window; the cut-off of the run
\* moves with it
TickWindow ==
    /\ horizon + Window <= ReadsHorizon + StaleWindows * Window
    /\ now' = now + Window
    /\ horizon' = horizon + Window
    /\ UNCHANGED <<config, last_request_time, prev_grant, cache, remote, pc, call, loc, obs, keys, tokens>>

\* ---- one caller of the rate limiter

InitThrottle == InitWith(OneCaller, NoDatabase, ThrottleHorizon)

NextThrottle ==
    \/ Tick
    \/ \E t \in OneCaller : CallWait(t)
    \/ \E t \in OneCaller : WaitRead(t)
    \/ \E t \in OneCaller : WaitCompare(t)
    \/ \E t \in OneCaller : WaitSleep(t)
    \/ \E t \in OneCaller : WaitWrite(t)

SpecThrottle == InitThrottle /\ [][NextThrottle]_vars

\* ---- two concurrent callers of one rate limiter

InitThrottle2 == InitWith(TwoCallers, NoDatabase, Throttle2Horizon)

NextThrottle2 ==
    \/ Tick
    \/ \E t \in TwoCallers : CallWait(t)
    \/ \E t \in TwoCallers : WaitRead(t)
    \/ \E t \in TwoCallers : WaitCompare(t)
    \/ \E t \in TwoCallers : WaitSleep(t)
    \/ \E t \in TwoCallers : WaitWrite(t)

SpecThrottle2 == InitThrottle2 /\ [][NextThrottle2]_vars

\* C5: with a single caller, consecutive grants of one RateLimiter are at
\* least min_interval apart.
C5_ThrottleSpacing ==
    prev_grant # NoInt => last_request_time - prev_grant >= MinInterval

\* a second grant that had to sleep out the remainder of the interval
C5_Witness ==
    /\ prev_grant # NoInt
    /\ last_request_time - prev_grant = MinInterval
    /\ \E t \in DOMAIN pc : pc[t] = "idle" /\ call[t].op = "wait"
                            /\ obs[t].result.kind = "return"

Abs(n) == IF n < 0 THEN -n ELSE n

\* C6: with concurrent callers of one RateLimiter, any two grants are at
\* least min_interval apart.
C6_ConcurrentSpacing ==
    \A t1, t2 \in DOMAIN pc :
        (t1 # t2 /\ obs[t1].granted_at # NoInt /\ obs[t2].granted_at # NoInt)
            => Abs(obs[t1].granted_at - obs[t2].granted_at) >= MinInterval

\* ------------------------------------------------------------------ executor

\* what one invocation of the wrapped call can do: return, or raise
\* APIResponseError with code rate_limited, RequestTimeoutError,
\* APIResponseError with another code, or any other exception
Failures == {"rate_limited", "timeout", "api_error", "exception"}

Retryable == {"rate_limited", "timeout"}

\* the value the opaque call of a direct _execute_with_retry returns
FuncValue == PyPage(<<"f">>, 0)

\* an executor that retries every APIResponseError, whatever its code
RetryDelayAnyCode(e, attempt, max_retries) ==
    IF e \in {"rate_limited", "api_error"} /\ attempt < max_retries - 1
    THEN 2 ^ attempt
    ELSE IF e = "timeout" /\ attempt < max_retries - 1 THEN 1
    ELSE NoInt

\* an executor whose delay after a timeout doubles like the one after a
\* rate limit
RetryDelayTimeoutDoubles(e, attempt, max_retries) ==
    IF e \in {"rate_limited", "timeout"} /\ attempt < max_retries - 1
    THEN 2 ^ attempt
    ELSE NoInt

\* an executor that sleeps after the last attempt too, and falls out of the loop
RetryDelayOffByOne(e, attempt, max_retries) ==
    IF e = "rate_limited" /\ attempt < max_retries THEN 2 ^ attempt
    ELSE IF e = "timeout" /\ attempt < max_retries THEN 1
    ELSE NoInt

\* the except clauses of _execute_with_retry: the seconds to sleep before the
\* next attempt, or NoInt when the error is raised to the caller
RetryDelay(e, attempt, max_retries) ==
    IF e = "rate_limited" /\ attempt < max_retries - 1 THEN 2 ^ attempt
    ELSE IF e = "timeout" /\ attempt < max_retries - 1 THEN 1
    ELSE NoInt

\* an executor that raises the first error it met
ReraiseFirst(e, earlier) == IF earlier = <<>> THEN e ELSE earlier[1]

\* the bare `raise` of the except clauses: the error being handled, whatever
\* the earlier attempts raised
Reraise(e, earlier) == e

\* where a facade method continues when its executor call has returned
ReturnPc(op) ==
    CASE op = "get_page" -> "g_store"
      [] op = "update_page" -> "u_inv1"
      [] op = "create_page" -> "c_inv"
      [] op = "query_database" -> "q_page"
      [] op = "batch_update_pages" -> "u_inv1"
      [] OTHER -> "idle"

\* a facade that invalidates in a finally clause, whether or not the remote
\* call succeeded
RaisePcFinally(op) ==
    CASE op = "update_page" -> "u_inv1"
      [] op = "create_page" -> "c_inv"
      [] op = "batch_update_pages" -> "b_except"
      [] OTHER -> "idle"

\* where an exception that leaves the executor lands: in the except clause of
\* batch_update_pages, the one method that catches; anywhere else it leaves
\* the facade
RaisePc(op) == IF op = "batch_update_pages" THEN "b_except" ELSE "idle"

\* the executor of caller t returns v to the method that called it, or, called
\* directly, to the caller; o is what has been observed of t's call by then
ExecutorReturns(t, v, o) ==
    IF call[t].op = "execute"
    THEN /\ pc' = [pc EXCEPT ![t] = "idle"]
         /\ loc' = [loc EXCEPT ![t] = NoLoc]
         /\ obs' = [obs EXCEPT ![t] = [o EXCEPT !.result = Returned(v),
                                                !.returned_at = now]]
    ELSE /\ pc' = [pc EXCEPT ![t] = ReturnPc(call[t].op)]
         /\ loc' = [loc EXCEPT ![t].response = v, ![t].fn = "none",
                               ![t].attempt = 0, ![t].max_retries = 0]
         /\ obs' = [obs EXCEPT ![t] = o]

\* the executor of caller t raises e: inside a batch the frame of update_page
\* is gone and e reaches the except clause of the batch; otherwise the
\* caller's call ends raising e
ExecutorRaises(t, e, o) ==
    /\ pc' = [pc EXCEPT ![t] = RaisePc(call[t].op)]
    /\ IF RaisePc(call[t].op) = "b_except"
       THEN /\ loc' = [loc EXCEPT ![t] = [NoLoc EXCEPT !.i = loc[t].i,
                                                       !.batch = loc[t].batch,
                                                       !.error = e]]
            /\ obs' = [obs EXCEPT ![t] =
                         [o EXCEPT !.ended = Append(@, <<"raise", o.outcomes>>)]]
       ELSE /\ loc' = [loc EXCEPT ![t] = NoLoc]
            /\ obs' = [obs EXCEPT ![t] = [o EXCEPT !.result = Raised(e),
                                                   !.returned_at = now]]

\* a loop that acquires the throttle for its first attempt only
ExecLoopWaitOnce(t) ==
    /\ pc[t] = "x_loop"
    /\ IF loc[t].attempt < loc[t].max_retries
       THEN /\ pc' = [pc EXCEPT ![t] = IF loc[t].attempt = 0 THEN "w_read" ELSE "x_call"]
            /\ UNCHANGED <<loc, obs>>
       ELSE ExecutorReturns(t, PyNone, obs[t])
    /\ UNCHANGED <<now, horizon, config, last_request_time, prev_grant, cache, remote, call, keys, tokens>>

\* for attempt in range(max_retries): the loop head; a loop that runs out
\* ends the function, which returns None
ExecLoop(t) ==
    /\ pc[t] = "x_loop"
    /\ IF loc[t].attempt < loc[t].max_retries
       THEN /\ pc' = [pc EXCEPT ![t] = "w_read"]
            /\ UNCHANGED <<loc, obs>>
       ELSE ExecutorReturns(t, PyNone, obs[t])
    /\ UNCHANGED <<now, horizon, config, last_request_time, prev_grant, cache, remote, call, keys, tokens>>

\* whether the remote can carry out the call the executor of t wraps: a page
\* to retrieve or update exists, a page to create has a free id
RemoteCan(t) ==
    CASE loc[t].fn = "retrieve" -> remote[PageArg(t)] # Absent
      [] loc[t].fn = "update" -> /\ remote[PageArg(t)] # Absent
                                 /\ remote[PageArg(t)] < MaxVersion
      [] loc[t].fn = "create" -> FreeNumbers(remote) # {}
      [] OTHER -> TRUE

\* the remote database after the call the executor of t wraps
RemoteAfter(t) ==
    CASE loc[t].fn = "update" -> [remote EXCEPT ![PageArg(t)] = @ + 1]
      [] loc[t].fn = "create" -> [remote EXCEPT ![NextNumber(remote)] = 0]
      [] OTHER -> remote

\* what the call the executor of t wraps returns
RemoteResponse(t) ==
    CASE loc[t].fn = "retrieve" ->
            PyPage(PageId(PageArg(t)), remote[PageArg(t)])
      [] loc[t].fn = "update" ->
            PyPage(PageId(PageArg(t)), remote[PageArg(t)] + 1)
      [] loc[t].fn = "create" -> PyPage(PageId(NextNumber(remote)), 0)
      [] loc[t].fn = "query" ->
            RemoteQuery(remote, call[t].filter, call[t].sorts, loc[t].start_cursor)
      [] OTHER -> FuncValue

\* return func(*args, **kwargs): the wrapped call returns
ExecCallOk(t) ==
    /\ pc[t] = "x_call"
    /\ RemoteCan(t)
    /\ remote' = RemoteAfter(t)
    /\ ExecutorReturns(t, RemoteResponse(t),
          [obs[t] EXCEPT !.outcomes = Append(@, "ok"),
                         !.pages = IF loc[t].fn = "query"
                                   THEN Append(@, RemoteResponse(t)) ELSE @])
    /\ UNCHANGED <<now, horizon, config, last_request_time, prev_grant, cache, call, keys, tokens>>

\* the wrapped call raises e: the except clauses either choose a delay to
\* sleep before the next attempt, or raise e to the caller
ExecCallFail(t) ==
    /\ pc[t] = "x_call"
    /\ \E e \in Failures :
         LET delay == RetryDelay(e, loc[t].attempt, loc[t].max_retries)
             o == [obs[t] EXCEPT !.outcomes = Append(@, e), !.failures = @ + 1]
         IN  IF delay # NoInt
             THEN /\ pc' = [pc EXCEPT ![t] = "x_backoff"]
                  /\ loc' = [loc EXCEPT ![t].wait_time = delay]
                  /\ obs' = [obs EXCEPT ![t] = o]
             ELSE ExecutorRaises(t, Reraise(e, obs[t].outcomes), o)
    /\ UNCHANGED <<now, horizon, config, last_request_time, prev_grant, cache, remote, call, keys, tokens>>

\* time.sleep(wait_time) between two attempts, then the next iteration
ExecBackoff(t) ==
    /\ pc[t] = "x_backoff"
    /\ now + loc[t].wait_time * TicksPerSecond <= horizon
    /\ now' = now + loc[t].wait_time * TicksPerSecond
    /\ pc' = [pc EXCEPT ![t] = "x_loop"]
    /\ loc' = [loc EXCEPT ![t].attempt = @ + 1, ![t].wait_time = 0]
    /\ obs' = [obs EXCEPT ![t].sleeps = Append(@, loc[t].wait_time)]
    /\ UNCHANGED <<horizon, config, last_request_time, prev_grant, cache, remote, call, keys, tokens>>

\* an executor whose attempt index carries on from the failures the caller's
\* earlier requests have met
EnterExecutorSharedBudget(l, fn, max_retries) ==
    [l EXCEPT !.fn = fn,
              !.attempt = CHOOSE n \in {obs[t].failures : t \in DOMAIN obs} :
                              \A t \in DOMAIN obs : obs[t].failures <= n,
              !.max_retries = max_retries]

\* what a method sets up when it calls _execute_with_retry(fn, ...)
EnterExecutor(l, fn, max_retries) ==
    [l EXCEPT !.fn = fn, !.attempt = 0, !.max_retries = max_retries]

\* what is observed of a call that enters the executor once more
CountExecutor(o) ==
    [o EXCEPT !.exec_calls = @ + 1, !.outcomes = <<>>, !.sleeps = <<>>, !.waits = 0]

\* a caller invokes _execute_with_retry(func, max_retries=n) on an opaque call
CallExecute(t, n) ==
    /\ pc[t] = "idle"
    /\ call' = [call EXCEPT ![t] = [NoCall EXCEPT !.op = "execute", !.max_retries = n]]
    /\ loc' = [loc EXCEPT ![t] = EnterExecutor(NoLoc, "func", n)]
    /\ obs' = [obs EXCEPT ![t] = CountExecutor(NoObs)]
    /\ pc' = [pc EXCEPT ![t] = "x_loop"]
    /\ UNCHANGED <<now, horizon, config, last_request_time, prev_grant, cache, remote, keys, tokens>>

\* ---- one caller of the executor, wrapping an opaque call; the clock
\* advances by the sleeps of the limiter and of the executor

InitRetry == InitWith(OneCaller, NoDatabase, RetryHorizon)

NextRetry ==
    \/ \E t \in OneCaller : \E n \in 0 .. MaxRetriesBound : CallExecute(t, n)
    \/ \E t \in OneCaller : ExecLoop(t)
    \/ \E t \in OneCaller : WaitRead(t)
    \/ \E t \in OneCaller : WaitCompare(t)
    \/ \E t \in OneCaller : WaitSleep(t)
    \/ \E t \in OneCaller : WaitWrite(t)
    \/ \E t \in OneCaller : ExecCallOk(t)
    \/ \E t \in OneCaller : ExecCallFail(t)
    \/ \E t \in OneCaller : ExecBackoff(t)

SpecRetry == InitRetry /\ [][NextRetry]_vars

\* caller t has made a direct call of _execute_with_retry, which has ended
ExecuteEnded(t) ==
    pc[t] = "idle" /\ call[t].op = "execute" /\ obs[t].result.kind # "none"

\* the backoff sleeps of n attempts that were all rate limited: 1, 2, 4, ...
ExhaustionSleeps(n) == [i \in 1 .. n - 1 |-> 2 ^ (i - 1)]

\* C7: a call that is rate limited on every attempt is invoked exactly
\* max_retries times (max_retries >= 1), with a backoff of 2^i seconds after
\* failed attempt i except the last, and then the rate-limited error is raised.
C7_RetryExhaustion ==
    \A t \in DOMAIN pc :
        (/\ ExecuteEnded(t)
         /\ call[t].max_retries >= 1
         /\ \A i \in 1 .. Len(obs[t].outcomes) : obs[t].outcomes[i] = "rate_limited")
        => /\ Len(obs[t].outcomes) = call[t].max_retries
           /\ obs[t].sleeps = ExhaustionSleeps(call[t].max_retries)
           /\ obs[t].result = Raised("rate_limited")

\* three rate-limited attempts of three, slept 1 s and 2 s, raised
C7_Witness ==
    \E t \in DOMAIN pc :
        /\ ExecuteEnded(t)
        /\ call[t].max_retries = 3
        /\ obs[t].outcomes = <<"rate_limited", "rate_limited", "rate_limited">>
        /\ obs[t].sleeps = <<1, 2>>
        /\ obs[t].result = Raised("rate_limited")

\* C8: an attempt that fails with a non-retryable error is the last attempt:
\* the executor has ended by raising that very error, and has slept only after
\* the retryable failures before it, whatever max_retries is.
C8_FatalNotRetried ==
    \A t \in DOMAIN pc :
        call[t].op = "execute" =>
            \A i \in 1 .. Len(obs[t].outcomes) :
                obs[t].outcomes[i] \in Failures \ Retryable
                => /\ i = Len(obs[t].outcomes)
                   /\ pc[t] = "idle"
                   /\ obs[t].result = Raised(obs[t].outcomes[i])
                   /\ Len(obs[t].sleeps) = i - 1

\* a fatal error on the second of three attempts, after a retried timeout
C8_Witness ==
    \E t \in DOMAIN pc :
        /\ ExecuteEnded(t)
        /\ call[t].max_retries = 3
        /\ obs[t].outcomes = <<"timeout", "api_error">>
        /\ obs[t].result = Raised("api_error")

\* C9: when all max_retries attempts fail with retryable errors, the error
\* raised is the one of the last attempt.
C9_ExhaustedSurfacesLast ==
    \A t \in DOMAIN pc :
        (/\ ExecuteEnded(t)
         /\ call[t].max_retries >= 1
         /\ Len(obs[t].outcomes) = call[t].max_retries
         /\ \A i \in 1 .. Len(obs[t].outcomes) : obs[t].outcomes[i] \in Retryable)
        => obs[t].result = Raised(obs[t].outcomes[call[t].max_retries])

\* retries exhausted by a mix of kinds whose last differs from the first
C9_Witness ==
    \E t \in DOMAIN pc :
        /\ ExecuteEnded(t)
        /\ call[t].max_retries = 3
        /\ obs[t].outcomes = <<"rate_limited", "rate_limited", "timeout">>
        /\ obs[t].result = Raised("timeout")

\* the positions of a caller inside a frame of _execute_with_retry
ExecutorFrames ==
    {"x_loop", "w_read", "w_cmp", "w_sleep", "w_write", "x_call", "x_backoff"}

\* the positions of a caller inside wait()
WaitFrames == {"w_read", "w_cmp", "w_sleep", "w_write"}

\* C29: every invocation of the wrapped call comes straight out of a wait()
\* of its own, so that the waits of an execution are as many as its attempts;
\* after a failure that is retried the executor sleeps the backoff, then
\* calls wait(), then makes the next attempt.
C29_ThrottleEveryAttempt ==
    /\ [](\A t \in DOMAIN pc :
            call[t].op = "execute" =>
                LET attempts == Len(obs[t].outcomes)
                    waits == obs[t].waits
                    backoffs == Len(obs[t].sleeps)
                IN  /\ pc[t] = "x_call" => (waits = attempts + 1 /\ backoffs = attempts)
                    /\ pc[t] \in WaitFrames \cup {"x_loop"}
                         => (waits = attempts /\ backoffs = attempts)
                    /\ pc[t] = "x_backoff"
                         => (waits = attempts /\ backoffs = attempts - 1)
                    /\ pc[t] = "idle" => waits = attempts)
    /\ [][\A t \in DOMAIN pc :
             /\ (pc'[t] = "x_call" /\ pc[t] # "x_call")
                  => (pc[t] = "w_write" /\ obs'[t].waits = obs[t].waits + 1)
             /\ (pc[t] = "x_backoff" /\ pc'[t] # "x_backoff")
                  => (pc'[t] = "x_loop" /\ now' = now + loc[t].wait_time * TicksPerSecond)
             /\ (pc[t] = "x_loop" /\ pc'[t] \notin {"x_loop", "idle"})
                  => pc'[t] = "w_read"
             /\ (pc[t] = "x_call" /\ pc'[t] \in WaitFrames) => FALSE]_vars

\* an execution that succeeded at its third attempt after three waits and two
\* backoff sleeps
C29_Witness ==
    \E t \in DOMAIN pc :
        /\ ExecuteEnded(t)
        /\ obs[t].outcomes = <<"rate_limited", "timeout", "ok">>
        /\ obs[t].waits = 3
        /\ Len(obs[t].sleeps) = 2

\* C30: no backoff precedes the first attempt, and the backoff slept after
\* failed attempt i (counted from 0 over all attempts of the call, with
\* attempts remaining) is 2^i seconds after a rate limit and 1 second after a
\* timeout.
C30_BackoffByAttemptIndex ==
    \A t \in DOMAIN pc :
        call[t].op = "execute" =>
            /\ Len(obs[t].sleeps) <= Len(obs[t].outcomes)
            /\ Len(obs[t].sleeps) < call[t].max_retries \/ call[t].max_retries = 0
            /\ (pc[t] \in ExecutorFrames \ {"x_backoff"} /\ Len(obs[t].outcomes) > 0)
                  => Len(obs[t].sleeps) = Len(obs[t].outcomes)
            /\ \A i \in 1 .. Len(obs[t].sleeps) :
                  /\ obs[t].outcomes[i] \in Retryable
                  /\ obs[t].sleeps[i]
                        = IF obs[t].outcomes[i] = "rate_limited" THEN 2 ^ (i - 1) ELSE 1

\* a rate limit on attempt 1 after a timeout on attempt 0: slept 1 s, then 2 s
C30_Witness ==
    \E t \in DOMAIN pc :
        /\ call[t].op = "execute"
        /\ pc[t] = "x_loop"
        /\ obs[t].outcomes = <<"timeout", "rate_limited">>
        /\ obs[t].sleeps = <<1, 2>>

\* ------------------------------------------------------------------ cache calls

\* Each method of LocalCache is one SQL statement and its commit: one step.

\* the keys, values, ttls, freshness bounds and patterns callers pass
CacheKeys == {QUERY \o COLON \o <<"a">>, QUERY \o COLON \o <<"b">>, PAGE \o COLON \o <<"c">>}

CacheValues == {PyPage(<<"1">>, 0), PyPage(<<"1">>, 1)}

Ttls == {NoInt, 0, 1}

MaxAges == {NoInt, 0, 1, 2}

\* "query:%", the LIKE pattern for the keys that start with "query:"
QueryPercent == QUERY \o COLON \o <<"%">>

Patterns == {QueryStar, QueryPercent}

\* caller t's call of a cache method c returns v
CacheCallReturns(t, c, v) ==
    /\ pc[t] = "idle"
    /\ call' = [call EXCEPT ![t] = c]
    /\ obs' = [obs EXCEPT ![t] = [NoObs EXCEPT !.result = Returned(v),
                                               !.returned_at = now]]
    /\ UNCHANGED <<now, horizon, config, last_request_time, prev_grant, remote, pc, loc, keys, tokens>>

\* cache.get(key, max_age)
Get(t, key, max_age) ==
    /\ CacheCallReturns(t, [NoCall EXCEPT !.op = "cache.get", !.key = key,
                                          !.max_age = max_age],
                        CacheGet(cache, key, max_age, now))
    /\ UNCHANGED cache

\* cache.set(key, value, ttl)
Set(t, key, value, ttl) ==
    /\ CacheCallReturns(t, [NoCall EXCEPT !.op = "cache.set", !.key = key,
                                          !.value = value, !.ttl = ttl], PyNone)
    /\ cache' = CacheSet(cache, key, value, ttl, now)

\* cache.invalidate(key)
Invalidate(t, key) ==
    /\ CacheCallReturns(t, [NoCall EXCEPT !.op = "cache.invalidate", !.key = key],
                        PyNone)
    /\ cache' = CacheInvalidate(cache, key)

\* cache.invalidate_pattern(pattern)
InvalidatePattern(t, pattern) ==
    /\ CacheCallReturns(t, [NoCall EXCEPT !.op = "cache.invalidate_pattern",
                                          !.pattern = pattern], PyNone)
    /\ cache' = CacheInvalidatePattern(cache, pattern)

\* cache.clear()
Clear(t) ==
    /\ CacheCallReturns(t, [NoCall EXCEPT !.op = "cache.clear"], PyNone)
    /\ cache' = CacheClear(cache)

\* cache.cleanup_expired()
CleanupExpired(t) ==
    /\ CacheCallReturns(t, [NoCall EXCEPT !.op = "cache.cleanup_expired"], PyNone)
    /\ cache' = CacheCleanupExpired(cache, now)

\* ---- one caller of a LocalCache

InitCache == InitWith(OneCaller, NoDatabase, CacheHorizon)

NextCache ==
    \/ TickSecond
    \/ \E t \in OneCaller, k \in CacheKeys, a \in MaxAges : Get(t, k, a)
    \/ \E t \in OneCaller, k \in CacheKeys, v \in CacheValues, l \in Ttls : Set(t, k, v, l)
    \/ \E t \in OneCaller, k \in CacheKeys : Invalidate(t, k)
    \/ \E t \in OneCaller, p \in Patterns : InvalidatePattern(t, p)
    \/ \E t \in OneCaller : Clear(t)
    \/ \E t \in OneCaller : CleanupExpired(t)

SpecCache == InitCache /\ [][NextCache]_vars

\* the text before the final character of a pattern
BeforeWildcard(pattern) == SubSeq(pattern, 1, Len(pattern) - 1)

\* C3: invalidate_pattern(prefix + "*") removes every entry whose key starts
\* with the prefix, so that "query:a" and "query:b" miss after
\* invalidate_pattern("query:*"), and removes no other entry.
C3_InvalidationScoping ==
    \A t \in DOMAIN pc :
        (/\ call[t].op = "cache.invalidate_pattern"
         /\ call[t].pattern # <<>>
         /\ call[t].pattern[Len(call[t].pattern)] = "*")
        => \A k \in DOMAIN cache : ~StartsWith(k, BeforeWildcard(call[t].pattern))

\* C4: get(key, max_age) never returns an entry whose expires_at has passed,
\* whatever max_age is and whether or not cleanup_expired has run.
C4_LazyExpiry ==
    \A t \in DOMAIN pc :
        (/\ call[t].op = "cache.get"
         /\ obs[t].returned_at = now
         /\ obs[t].result.value # PyNone)
        => \/ cache[call[t].key].expires_at = NoInt
           \/ now < cache[call[t].key].expires_at

\* ---- two callers of generate_key, of a LocalCache that changes meanwhile

\* the argument tuples the facade passes: ("query", db_id, filter_dict, sorts)
\* and ("page", page_id)
KeyArgs ==
    {<<QUERY, d, f, o>> : d \in {ConfigDatabaseId, <<"1">>},
                          f \in {PyNone, <<"f">>}, o \in {PyNone, <<"f">>}}
    \cup {<<PAGE, PageId(n)>> : n \in PageNumbers}

\* cache.generate_key(*args)
GenerateKeyCall(t, args) ==
    /\ CacheCallReturns(t, [NoCall EXCEPT !.op = "cache.generate_key",
                                          !.args = args], GenerateKey(args))
    /\ UNCHANGED cache

InitKeys == InitWith(TwoCallers, NoDatabase, CacheHorizon)

NextKeys ==
    \/ TickSecond
    \/ \E t \in TwoCallers, a \in KeyArgs : GenerateKeyCall(t, a)
    \/ \E t \in TwoCallers : Set(t, GenerateKey(<<PAGE, PageId(1)>>), PyPage(PageId(1), 0), NoInt)
    \/ \E t \in TwoCallers : Clear(t)

SpecKeys == InitKeys /\ [][NextKeys]_vars

\* caller t's last call was generate_key
Generated(t) == call[t].op = "cache.generate_key"

GotEntry(t) ==
    /\ call[t].op = "cache.get"
    /\ obs[t].returned_at = now
    /\ call[t].key \in DOMAIN cache

\* the age of the entry of key k, in ticks
Age(k) == now - cache[k].created_at

\* C11: for an entry stored without a ttl, get(k, max_age = m) with m > 0
\* returns the stored value when the entry's age is less than m and misses
\* when its age is greater than m.
C11_FreshnessOverride ==
    \A t \in DOMAIN pc :
        (/\ GotEntry(t)
         /\ call[t].max_age > 0
         /\ cache[call[t].key].expires_at = NoInt)
        => /\ Age(call[t].key) < call[t].max_age * TicksPerSecond
                => obs[t].result.value = JsonLoads(cache[call[t].key].value)
           /\ Age(call[t].key) > call[t].max_age * TicksPerSecond
                => obs[t].result.value = PyNone

\* a miss of get(k, max_age = 1) on an entry without ttl that is 2 s old
C11_Witness ==
    \E t \in DOMAIN pc :
        /\ GotEntry(t)
        /\ call[t].max_age = 1
        /\ cache[call[t].key].expires_at = NoInt
        /\ Age(call[t].key) = 2 * TicksPerSecond
        /\ obs[t].result.value = PyNone

\* C12: an entry whose age is exactly max_age is a hit of get(key, max_age).
C12_InclusiveBoundary ==
    \A t \in DOMAIN pc :
        (/\ GotEntry(t)
         /\ call[t].max_age # NoInt
         /\ Age(call[t].key) = call[t].max_age * TicksPerSecond)
        => obs[t].result.value = JsonLoads(cache[call[t].key].value)

\* ---- one caller: every step of the cache against the step before it

\* in this step caller t calls the cache method op (one caller, no clock step)
Calls(t, op) == now' = now /\ call'[t].op = op

\* the entries under the keys other than key are the same after the step
OthersUnchanged(key) ==
    /\ DOMAIN cache' \ {key} = DOMAIN cache \ {key}
    /\ \A k \in DOMAIN cache \ {key} : cache'[k] = cache[k]

\* the entry of key k is within the freshness bound max_age of a get:
\* now - created_at <= max_age, or no bound given
MeetsBound(k, max_age) ==
    max_age = NoInt \/ now - cache[k].created_at <= max_age * TicksPerSecond

\* what a step does to the entries: a set, an invalidate, a clear, a get, time
ReadAfterWriteStep(t) ==
    /\ Calls(t, "cache.set")
         => /\ call'[t].key \in DOMAIN cache'
            /\ JsonLoads(cache'[call'[t].key].value) = call'[t].value
            /\ OthersUnchanged(call'[t].key)
    /\ Calls(t, "cache.invalidate")
         => /\ call'[t].key \notin DOMAIN cache'
            /\ OthersUnchanged(call'[t].key)
    /\ Calls(t, "cache.clear") => DOMAIN cache' = {}
    /\ Calls(t, "cache.get")
         => /\ cache' = cache
            /\ call'[t].key \notin DOMAIN cache => obs'[t].result.value = PyNone
    /\ now' # now => cache' = cache

\* C21: once set(k, v) has returned, every get(k) with a freshness bound the
\* entry meets returns v until the next mutation of k, and once invalidate(k)
\* or clear() has returned every get(k, any max_age) misses until the next
\* set(k): a set leaves v under k, an invalidate or a clear leaves nothing
\* under k, neither a get nor the passing of time nor a set or invalidate of
\* another key changes the entry of k, and a get returns the value of the entry
\* it finds within its bound and misses when it finds none.
C21_ReadAfterWrite ==
    [][\A t \in DOMAIN pc :
          /\ ReadAfterWriteStep(t)
          /\ (/\ Calls(t, "cache.get")
              /\ call'[t].key \in DOMAIN cache
              /\ MeetsBound(call'[t].key, call'[t].max_age))
               => obs'[t].result.value = JsonLoads(cache[call'[t].key].value)]_vars

\* expires_at as the contract of set states it: now + ttl, none when no ttl is given
ExpiresAtGiven(ttl, clock) ==
    IF ttl = NoInt THEN NoInt ELSE clock + ttl * TicksPerSecond

\* C22: the table holds one entry per key (key is its primary key), and
\* set(k, v2, ttl2) on an existing key replaces its value by v2, its created_at
\* by the time of this set and its expires_at by now + ttl2, or by none when
\* ttl2 is not given, and leaves the entry of every other key unchanged.
C22_SetReplaces ==
    [][\A t \in DOMAIN pc :
          (Calls(t, "cache.set") /\ call'[t].key \in DOMAIN cache)
          => /\ cache'[call'[t].key]
                   = Row(JsonDumps(call'[t].value), now,
                         ExpiresAtGiven(call'[t].ttl, now))
             /\ OthersUnchanged(call'[t].key)]_vars

\* C23: invalidate(key) removes the entry stored under that key and no other
\* entry, leaves the table as it is when the key is absent, returns without an
\* error, and invalidating the same key again changes nothing more.
C23_InvalidateExact ==
    [][\A t \in DOMAIN pc :
          Calls(t, "cache.invalidate")
          => /\ call'[t].key \notin DOMAIN cache'
             /\ OthersUnchanged(call'[t].key)
             /\ call'[t].key \notin DOMAIN cache => cache' = cache
             /\ obs'[t].result = Returned(PyNone)
             /\ CacheInvalidate(cache', call'[t].key) = cache']_vars

\* invalidate("query:a") has just returned with the entries of "query:b" and
\* "page:c" still there
C23_Witness ==
    \E t \in DOMAIN pc :
        /\ call[t].op = "cache.invalidate"
        /\ obs[t].returned_at = now
        /\ call[t].key = QUERY \o COLON \o <<"a">>
        /\ DOMAIN cache = CacheKeys \ {call[t].key}

SharedKey == PAGE \o COLON \o <<"c">>

\* the set calls: caller t1 stores version 0 with ttl 1, caller t2 version 1
\* without ttl
SharedSet(t) ==
    IF t = "t1" THEN [value |-> PyPage(<<"1">>, 0), ttl |-> 1]
    ELSE [value |-> PyPage(<<"1">>, 1), ttl |-> NoInt]

\* a caller invokes cache.set(key, value, ttl)
SetCall(t, key, value, ttl) ==
    /\ pc[t] = "idle"
    /\ call' = [call EXCEPT ![t] = [NoCall EXCEPT !.op = "cache.set", !.key = key,
                                                  !.value = value, !.ttl = ttl]]
    /\ loc' = [loc EXCEPT ![t] = NoLoc]
    /\ obs' = [obs EXCEPT ![t] = NoObs]
    /\ pc' = [pc EXCEPT ![t] = "s_expires"]
    /\ UNCHANGED <<now, horizon, config, last_request_time, prev_grant, cache, remote, keys, tokens>>

\* set: value_json = json.dumps(value); expires_at = now + ttl if ttl
SetExpires(t) ==
    /\ pc[t] = "s_expires"
    /\ loc' = [loc EXCEPT ![t].value_json = JsonDumps(call[t].value),
                          ![t].expires_at = ExpiresAt(call[t].ttl, now)]
    /\ pc' = [pc EXCEPT ![t] = "s_created"]
    /\ UNCHANGED <<now, horizon, config, last_request_time, prev_grant, cache, remote, call, obs, keys, tokens>>

\* set: datetime.now(), the created_at among the parameters of the statement
SetCreated(t) ==
    /\ pc[t] = "s_created"
    /\ loc' = [loc EXCEPT ![t].created_at = now]
    /\ pc' = [pc EXCEPT ![t] = "s_insert"]
    /\ UNCHANGED <<now, horizon, config, last_request_time, prev_grant, cache, remote, call, obs, keys, tokens>>

\* set: cursor.execute("INSERT OR REPLACE ...")
SetInsert(t) ==
    /\ pc[t] = "s_insert"
    /\ cache' = InsertOrReplace(cache, call[t].key,
                    Row(loc[t].value_json, loc[t].created_at, loc[t].expires_at))
    /\ pc' = [pc EXCEPT ![t] = "s_commit"]
    /\ UNCHANGED <<now, horizon, config, last_request_time, prev_grant, remote, call, loc, obs, keys, tokens>>

\* set, invalidate: self.conn.commit(), and the method returns None
CommitReturn(t) ==
    /\ pc[t] \in {"s_commit", "i_commit"}
    /\ Finish(t, Returned(PyNone), obs[t])
    /\ UNCHANGED <<now, horizon, config, last_request_time, prev_grant, cache, remote, call, keys, tokens>>

\* a caller invokes cache.get(key, max_age)
GetCall(t, key, max_age) ==
    /\ pc[t] = "idle"
    /\ call' = [call EXCEPT ![t] = [NoCall EXCEPT !.op = "cache.get", !.key = key,
                                                  !.max_age = max_age]]
    /\ loc' = [loc EXCEPT ![t] = NoLoc]
    /\ obs' = [obs EXCEPT ![t] = NoObs]
    /\ pc' = [pc EXCEPT ![t] = "g_min"]
    /\ UNCHANGED <<now, horizon, config, last_request_time, prev_grant, cache, remote, keys, tokens>>

\* get: if max_age: min_time = datetime.now() - timedelta(seconds=max_age)
GetMinTime(t) ==
    /\ pc[t] = "g_min"
    /\ loc' = [loc EXCEPT ![t].current_time = now]
    /\ pc' = [pc EXCEPT ![t] = "g_select"]
    /\ UNCHANGED <<now, horizon, config, last_request_time, prev_grant, cache, remote, call, obs, keys, tokens>>

\* get: cursor.execute("SELECT value FROM cache WHERE key = ? ...")
GetSelect(t) ==
    /\ pc[t] = "g_select"
    /\ loc' = [loc EXCEPT ![t].row =
                 SelectValue(cache, call[t].key, call[t].max_age, loc[t].current_time)]
    /\ pc' = [pc EXCEPT ![t] = "g_fetch"]
    /\ UNCHANGED <<now, horizon, config, last_request_time, prev_grant, cache, remote, call, obs, keys, tokens>>

\* get: row = cursor.fetchone(); return json.loads(row[0]) if row else None
GetFetch(t) ==
    /\ pc[t] = "g_fetch"
    /\ Finish(t, Returned(IF loc[t].row # PyNone THEN JsonLoads(loc[t].row) ELSE PyNone),
              obs[t])
    /\ UNCHANGED <<now, horizon, config, last_request_time, prev_grant, cache, remote, call, keys, tokens>>

\* a caller invokes cache.invalidate(key), whose first statement is the DELETE
InvalidateCall(t, key) ==
    /\ pc[t] = "idle"
    /\ call' = [call EXCEPT ![t] = [NoCall EXCEPT !.op = "cache.invalidate", !.key = key]]
    /\ loc' = [loc EXCEPT ![t] = NoLoc]
    /\ obs' = [obs EXCEPT ![t] = NoObs]
    /\ pc' = [pc EXCEPT ![t] = "i_delete"]
    /\ UNCHANGED <<now, horizon, config, last_request_time, prev_grant, cache, remote, keys, tokens>>

\* invalidate: cursor.execute("DELETE FROM cache WHERE key = ?")
InvalidateDelete(t) ==
    /\ pc[t] = "i_delete"
    /\ cache' = CacheInvalidate(cache, call[t].key)
    /\ pc' = [pc EXCEPT ![t] = "i_commit"]
    /\ UNCHANGED <<now, horizon, config, last_request_time, prev_grant, remote, call, loc, obs, keys, tokens>>

InitShared == InitWith(TwoCallers, NoDatabase, CacheHorizon)

NextShared ==
    \/ TickSecond
    \/ \E t \in TwoCallers : SetCall(t, SharedKey, SharedSet(t).value, SharedSet(t).ttl)
    \/ \E t \in TwoCallers : SetExpires(t)
    \/ \E t \in TwoCallers : SetCreated(t)
    \/ \E t \in TwoCallers : SetInsert(t)
    \/ \E t \in TwoCallers : CommitReturn(t)
    \/ \E t \in TwoCallers, a \in {NoInt, 1} : GetCall(t, SharedKey, a)
    \/ \E t \in TwoCallers : GetMinTime(t)
    \/ \E t \in TwoCallers : GetSelect(t)
    \/ \E t \in TwoCallers : GetFetch(t)
    \/ \E t \in TwoCallers : InvalidateCall(t, SharedKey)
    \/ \E t \in TwoCallers : InvalidateDelete(t)

SpecShared == InitShared /\ [][NextShared]_vars

\* the row set(value, ttl) of caller t writes when all of it comes from that
\* one call: its value, a created_at at or after the instant its expires_at
\* was computed from, and the expires_at of its ttl
WrittenWhole(row, t) ==
    /\ call[t].op = "cache.set"
    /\ row.value = JsonDumps(call[t].value)
    /\ row.created_at = loc[t].created_at
    /\ row.expires_at = loc[t].expires_at
    /\ IF call[t].ttl = NoInt THEN row.expires_at = NoInt
       ELSE /\ row.expires_at # NoInt
            /\ row.expires_at - call[t].ttl * TicksPerSecond <= row.created_at

\* a row that is whole: the value of one of the two set calls with the
\* expiry of the same call
Whole(row) ==
    \E t \in TwoCallers :
        /\ row.value = JsonDumps(SharedSet(t).value)
        /\ row.expires_at = NoInt <=> SharedSet(t).ttl = NoInt
        /\ row.expires_at # NoInt
             => row.expires_at - SharedSet(t).ttl * TicksPerSecond <= row.created_at

\* C27: in every interleaving of set(k, v1), set(k, v2), get(k) and
\* invalidate(k) by two callers of one LocalCache, the entry of k is in every
\* state a row whose value, created_at and expires_at one set call wrote
\* together; the table changes only by the INSERT of a set, which puts the
\* whole row of that call in place of whatever was there, or by the DELETE of
\* an invalidate, which leaves no entry; and a get returns a miss or the value
\* of a whole row that was the entry when it selected.
C27_NoTornEntry ==
    /\ [](\A k \in DOMAIN cache : Whole(cache[k]))
    /\ [](\A t \in DOMAIN pc :
            (call[t].op = "cache.get" /\ pc[t] = "idle")
            => \/ obs[t].result = Returned(PyNone)
               \/ \E u \in TwoCallers : obs[t].result = Returned(SharedSet(u).value))
    /\ [][/\ cache' # cache
             => \E t \in DOMAIN pc :
                   \/ /\ pc[t] = "s_insert" /\ pc'[t] = "s_commit"
                      /\ SharedKey \in DOMAIN cache'
                      /\ WrittenWhole(cache'[SharedKey], t)
                   \/ /\ pc[t] = "i_delete" /\ pc'[t] = "i_commit"
                      /\ SharedKey \notin DOMAIN cache'
          /\ \A t \in DOMAIN pc :
                (pc[t] = "g_select" /\ pc'[t] = "g_fetch" /\ loc'[t].row # PyNone)
                => (SharedKey \in DOMAIN cache /\ loc'[t].row = cache[SharedKey].value)]_vars

\* caller t1 has inserted, and not yet committed, a row it prepared a second
\* or more ago, while caller t2 is about to select the same key
C27_Witness ==
    /\ pc["t1"] = "s_commit"
    /\ call["t2"].op = "cache.get"
    /\ pc["t2"] = "g_select"
    /\ SharedKey \in DOMAIN cache
    /\ cache[SharedKey].value = JsonDumps(SharedSet("t1").value)
    /\ cache[SharedKey].created_at < now

\* ------------------------------------------------------------------ NotionAPI

\* the database_id arguments callers pass: None stands for the configured one
DatabaseArgs == {PyNone}

\* the cache_ttl arguments callers pass
CacheTtlArgs == {DefaultCacheTtl, 0}

\* db_id = database_id or self.config.database_id
DbId(database_id) ==
    IF database_id # PyNone /\ database_id # <<>> THEN database_id
    ELSE ConfigDatabaseId

\* self.cache.generate_key("page", page_id)
PageKey(page) == GenerateKey(<<PAGE, PageId(page)>>)

\* self.cache.generate_key("query", db_id, filter_dict, sorts)
QueryKey(database_id, filter, sorts) ==
    GenerateKey(<<QUERY, DbId(database_id), filter, sorts>>)

\* a caller invokes get_page(page_id, use_cache)
CallGetPage(t, page, use_cache) ==
    /\ pc[t] = "idle"
    /\ call' = [call EXCEPT ![t] = [NoCall EXCEPT !.op = "get_page", !.page = page,
                                                  !.use_cache = use_cache]]
    /\ loc' = [loc EXCEPT ![t] = NoLoc]
    /\ obs' = [obs EXCEPT ![t] = StartObs]
    /\ pc' = [pc EXCEPT ![t] = "g_start"]
    /\ UNCHANGED <<now, horizon, config, last_request_time, prev_grant, cache, remote, keys, tokens>>

\* get_page: the cache lookup; a truthy value is returned, anything else
\* leads to _execute_with_retry(self.client.pages.retrieve, ...)
GetPageStart(t) ==
    /\ pc[t] = "g_start"
    /\ LET cache_key == PageKey(call[t].page)
           cached == CacheGet(cache, cache_key, NoInt, now)
       IN  IF call[t].use_cache /\ Truthy(cached)
           THEN /\ pc' = [pc EXCEPT ![t] = "idle"]
                /\ loc' = [loc EXCEPT ![t] = NoLoc]
                /\ obs' = [obs EXCEPT ![t].hit = TRUE,
                                      ![t].result = Returned(cached),
                                      ![t].returned_at = now]
           ELSE /\ pc' = [pc EXCEPT ![t] = "x_loop"]
                /\ loc' = [loc EXCEPT ![t] =
                             [EnterExecutor(@, "retrieve", DefaultMaxRetries)
                                EXCEPT !.cache_key =
                                   IF call[t].use_cache THEN cache_key ELSE <<>>]]
                /\ obs' = [obs EXCEPT ![t] =
                             [CountExecutor(@) EXCEPT !.missed = call[t].use_cache]]
    /\ UNCHANGED <<now, horizon, config, last_request_time, prev_grant, cache, remote, call, keys, tokens>>

\* get_page: the page is stored under the key looked up, and returned
GetPageStore(t) ==
    /\ pc[t] = "g_store"
    /\ cache' = IF call[t].use_cache
                THEN CacheSet(cache, loc[t].cache_key, loc[t].response, NoInt, now)
                ELSE cache
    /\ Finish(t, Returned(loc[t].response), obs[t])
    /\ UNCHANGED <<now, horizon, config, last_request_time, prev_grant, remote, call, keys, tokens>>

\* a caller invokes update_page(page_id, properties), which starts with
\* _execute_with_retry(self.client.pages.update, ...)
CallUpdatePage(t, page) ==
    /\ pc[t] = "idle"
    /\ call' = [call EXCEPT ![t] = [NoCall EXCEPT !.op = "update_page", !.page = page]]
    /\ loc' = [loc EXCEPT ![t] = EnterExecutor(NoLoc, "update", DefaultMaxRetries)]
    /\ obs' = [obs EXCEPT ![t] = CountExecutor(StartObs)]
    /\ pc' = [pc EXCEPT ![t] = "x_loop"]
    /\ UNCHANGED <<now, horizon, config, last_request_time, prev_grant, cache, remote, keys, tokens>>

\* update_page: self.cache.invalidate(f"page:{page_id}")
UpdateInvalidatePage(t) ==
    /\ pc[t] = "u_inv1"
    /\ cache' = CacheInvalidate(cache, PageColon(PageId(PageArg(t))))
    /\ pc' = [pc EXCEPT ![t] = "u_inv2"]
    /\ obs' = [obs EXCEPT ![t].invalidations = @ + 1]
    /\ UNCHANGED <<now, horizon, config, last_request_time, prev_grant, remote, call, loc, keys, tokens>>

\* results.append({"success": True, "page_id": ..., "result": result})
BatchSuccess(results, page_id, result) ==
    Append(results, [success |-> TRUE, page_id |-> page_id, result |-> result,
                     error |-> "none"])

\* update_page: self.cache.invalidate_pattern("query:*"), and return result:
\* to the caller, or to the try body of batch_update_pages, which appends
\* the item's success
UpdateInvalidateQueries(t) ==
    /\ pc[t] = "u_inv2"
    /\ cache' = CacheInvalidatePattern(cache, QueryStar)
    /\ IF call[t].op = "batch_update_pages"
       THEN /\ pc' = [pc EXCEPT ![t] = "b_pace"]
            /\ loc' = [loc EXCEPT ![t] =
                         [NoLoc EXCEPT !.i = loc[t].i,
                                       !.batch = BatchSuccess(loc[t].batch,
                                                              PageId(PageArg(t)),
                                                              loc[t].response)]]
            /\ obs' = [obs EXCEPT ![t].invalidations = @ + 1,
                                  ![t].ended = Append(@, <<"return", obs[t].outcomes>>)]
       ELSE Finish(t, Returned(loc[t].response),
                   [obs[t] EXCEPT !.invalidations = @ + 1])
    /\ UNCHANGED <<now, horizon, config, last_request_time, prev_grant, remote, call, keys, tokens>>

\* the sequences over S of length at most n in which no element occurs twice
SeqsUpTo(S, n) ==
    {u \in UNION {[1 .. k -> S] : k \in 0 .. n} :
        \A i, j \in DOMAIN u : u[i] = u[j] => i = j}

BatchPageNumbers == 1 .. BatchPages

\* the updates lists callers pass: every item has its page_id and properties,
\* and no page is listed twice
UpdatesArgs == SeqsUpTo(BatchPageNumbers, BatchLen)

\* the delay_between_requests arguments callers pass, in milliseconds
DelayArgs == {DefaultDelayMs}

\* a caller invokes batch_update_pages(updates, delay_between_requests):
\* results = [], total = len(updates)
CallBatchUpdatePages(t, updates, delay) ==
    /\ pc[t] = "idle"
    /\ call' = [call EXCEPT ![t] = [NoCall EXCEPT !.op = "batch_update_pages",
                                                  !.updates = updates,
                                                  !.delay_between_requests = delay]]
    /\ loc' = [loc EXCEPT ![t] = NoLoc]
    /\ obs' = [obs EXCEPT ![t] = StartObs]
    /\ pc' = [pc EXCEPT ![t] = "b_loop"]
    /\ UNCHANGED <<now, horizon, config, last_request_time, prev_grant, cache, remote, keys, tokens>>

\* batch_update_pages: for i, update in enumerate(updates, 1): the next item
\* enters update_page, which starts with _execute_with_retry; after the last
\* item, return results
BatchLoop(t) ==
    /\ pc[t] = "b_loop"
    /\ IF loc[t].i < Len(call[t].updates)
       THEN /\ pc' = [pc EXCEPT ![t] = "x_loop"]
            /\ loc' = [loc EXCEPT ![t] =
                         [EnterExecutor(@, "update", DefaultMaxRetries)
                            EXCEPT !.i = @ + 1]]
            /\ obs' = [obs EXCEPT ![t] =
                         [CountExecutor(@) EXCEPT
                            !.issued = Append(@, call[t].updates[loc[t].i + 1])]]
       ELSE Finish(t, Returned(PyList(loc[t].batch)), obs[t])
    /\ UNCHANGED <<now, horizon, config, last_request_time, prev_grant, cache, remote, call, keys, tokens>>

\* a batch that leaves failed items out of its results
BatchFailureDropped(results, page_id, e) == results

\* results.append({"success": False, "page_id": ..., "error": str(e)})
BatchFailure(results, page_id, e) ==
    Append(results, [success |-> FALSE, page_id |-> page_id, result |-> PyNone,
                     error |-> e])

\* batch_update_pages: except Exception as e: the item's failure is appended
BatchExcept(t) ==
    /\ pc[t] = "b_except"
    /\ loc' = [loc EXCEPT ![t].batch = BatchFailure(@, PageId(PageArg(t)), loc[t].error),
                          ![t].error = "none"]
    /\ pc' = [pc EXCEPT ![t] = "b_pace"]
    /\ UNCHANGED <<now, horizon, config, last_request_time, prev_grant, cache, remote, call, obs, keys, tokens>>

\* a batch that sleeps the delay after every item, the last included
BatchPaceEveryItem(t) ==
    /\ pc[t] = "b_pace"
    /\ now + SleepTicks(call[t].delay_between_requests) <= horizon
    /\ now' = now + SleepTicks(call[t].delay_between_requests)
    /\ obs' = [obs EXCEPT ![t].delays = Append(@, call[t].delay_between_requests)]
    /\ pc' = [pc EXCEPT ![t] = "b_loop"]
    /\ UNCHANGED <<horizon, config, last_request_time, prev_grant, cache, remote, call, loc, keys, tokens>>

\* batch_update_pages: if i < total: time.sleep(delay_between_requests)
BatchPace(t) ==
    /\ pc[t] = "b_pace"
    /\ IF loc[t].i < Len(call[t].updates)
       THEN /\ now + SleepTicks(call[t].delay_between_requests) <= horizon
            /\ now' = now + SleepTicks(call[t].delay_between_requests)
            /\ obs' = [obs EXCEPT ![t].delays =
                                     Append(@, call[t].delay_between_requests)]
       ELSE UNCHANGED <<now, obs>>
    /\ pc' = [pc EXCEPT ![t] = "b_loop"]
    /\ UNCHANGED <<horizon, config, last_request_time, prev_grant, cache, remote, call, loc, keys, tokens>>

\* a caller invokes create_page(database_id, properties), which starts with
\* _execute_with_retry(self.client.pages.create, ...)
CallCreatePage(t) ==
    /\ pc[t] = "idle"
    /\ call' = [call EXCEPT ![t] = [NoCall EXCEPT !.op = "create_page",
                                                  !.database_id = ConfigDatabaseId]]
    /\ loc' = [loc EXCEPT ![t] = EnterExecutor(NoLoc, "create", DefaultMaxRetries)]
    /\ obs' = [obs EXCEPT ![t] = CountExecutor(StartObs)]
    /\ pc' = [pc EXCEPT ![t] = "x_loop"]
    /\ UNCHANGED <<now, horizon, config, last_request_time, prev_grant, cache, remote, keys, tokens>>

\* create_page: self.cache.invalidate_pattern("query:*"), and return result
CreateInvalidateQueries(t) ==
    /\ pc[t] = "c_inv"
    /\ cache' = CacheInvalidatePattern(cache, QueryStar)
    /\ Finish(t, Returned(loc[t].response), [obs[t] EXCEPT !.invalidations = @ + 1])
    /\ UNCHANGED <<now, horizon, config, last_request_time, prev_grant, remote, call, keys, tokens>>

\* a caller invokes query_database(database_id, filter_dict, sorts, use_cache,
\* cache_ttl)
CallQueryDatabase(t, database_id, filter, sorts, use_cache, cache_ttl) ==
    /\ pc[t] = "idle"
    /\ call' = [call EXCEPT ![t] =
                  [NoCall EXCEPT !.op = "query_database", !.database_id = database_id,
                                 !.filter = filter, !.sorts = sorts,
                                 !.use_cache = use_cache, !.cache_ttl = cache_ttl]]
    /\ loc' = [loc EXCEPT ![t] = NoLoc]
    /\ obs' = [obs EXCEPT ![t] = StartObs]
    /\ pc' = [pc EXCEPT ![t] = "q_start"]
    /\ UNCHANGED <<now, horizon, config, last_request_time, prev_grant, cache, remote, keys, tokens>>

\* query_database: the cache lookup; a truthy value is returned, anything
\* else starts the loop with results = [], has_more = True, start_cursor = None
QueryStart(t) ==
    /\ pc[t] = "q_start"
    /\ LET cache_key == QueryKey(call[t].database_id, call[t].filter, call[t].sorts)
           cached == CacheGet(cache, cache_key, call[t].cache_ttl, now)
       IN  IF call[t].use_cache /\ Truthy(cached)
           THEN /\ pc' = [pc EXCEPT ![t] = "idle"]
                /\ loc' = [loc EXCEPT ![t] = NoLoc]
                /\ obs' = [obs EXCEPT ![t].hit = TRUE,
                                      ![t].result = Returned(cached),
                                      ![t].returned_at = now]
           ELSE /\ pc' = [pc EXCEPT ![t] = "x_loop"]
                /\ loc' = [loc EXCEPT ![t] =
                             [EnterExecutor(@, "query", DefaultMaxRetries)
                                EXCEPT !.cache_key =
                                          IF call[t].use_cache THEN cache_key ELSE <<>>,
                                       !.results = <<>>,
                                       !.has_more = TRUE,
                                       !.start_cursor = NoInt]]
                /\ obs' = [obs EXCEPT ![t] =
                             [CountExecutor(@) EXCEPT !.missed = call[t].use_cache]]
    /\ UNCHANGED <<now, horizon, config, last_request_time, prev_grant, cache, remote, call, keys, tokens>>

\* results after results.extend(response.get("results", []))
Extend(results, response) == results \o response.results

\* a loop that never takes the cursor of the page it got
NextCursorNone(response) == NoInt

\* start_cursor = response.get("next_cursor")
NextCursor(response) == response.next_cursor

\* a query that stores the list it has so far after every page
QueryPageStoresPartial(t) ==
    /\ pc[t] = "q_page"
    /\ LET response == loc[t].response
           l == [loc[t] EXCEPT !.results = Extend(@, response),
                               !.has_more = response.has_more,
                               !.start_cursor = NextCursor(response),
                               !.response = PyNone]
       IN  /\ cache' = IF call[t].use_cache
                       THEN CacheSet(cache, l.cache_key, PyList(l.results), NoInt, now)
                       ELSE cache
           /\ IF response.has_more
              THEN /\ pc' = [pc EXCEPT ![t] = "x_loop"]
                   /\ loc' = [loc EXCEPT ![t] = EnterExecutor(l, "query", DefaultMaxRetries)]
                   /\ obs' = [obs EXCEPT ![t] = CountExecutor(@)]
              ELSE /\ pc' = [pc EXCEPT ![t] = "q_store"]
                   /\ loc' = [loc EXCEPT ![t] = l]
                   /\ UNCHANGED obs
    /\ UNCHANGED <<now, horizon, config, last_request_time, prev_grant, remote, call, keys, tokens>>

\* query_database: the body of the while loop after a page has arrived, and
\* the loop test: another page is requested while has_more
QueryPage(t) ==
    /\ pc[t] = "q_page"
    /\ LET response == loc[t].response
           l == [loc[t] EXCEPT !.results = Extend(@, response),
                               !.has_more = response.has_more,
                               !.start_cursor = NextCursor(response),
                               !.response = PyNone]
       IN  IF response.has_more
           THEN /\ pc' = [pc EXCEPT ![t] = "x_loop"]
                /\ loc' = [loc EXCEPT ![t] = EnterExecutor(l, "query", DefaultMaxRetries)]
                /\ obs' = [obs EXCEPT ![t] = CountExecutor(@)]
           ELSE /\ pc' = [pc EXCEPT ![t] = "q_store"]
                /\ loc' = [loc EXCEPT ![t] = l]
                /\ UNCHANGED obs
    /\ UNCHANGED <<now, horizon, config, last_request_time, prev_grant, cache, remote, call, keys, tokens>>

\* query_database: the accumulated list is stored under the key looked up,
\* and returned
QueryStore(t) ==
    /\ pc[t] = "q_store"
    /\ cache' = IF call[t].use_cache
                THEN CacheSet(cache, loc[t].cache_key, PyList(loc[t].results), NoInt, now)
                ELSE cache
    /\ Finish(t, Returned(PyList(loc[t].results)), obs[t])
    /\ UNCHANGED <<now, horizon, config, last_request_time, prev_grant, remote, call, keys, tokens>>

\* ---- one caller of the facade; the clock advances by the sleeps of the
\* limiter and of the executor

Init ==
    \E db \in StartDatabases : InitWith(OneCaller, db, FacadeHorizon)

Next ==
    \/ \E t \in OneCaller, n \in PageNumbers, u \in BOOLEAN : CallGetPage(t, n, u)
    \/ \E t \in OneCaller : GetPageStart(t)
    \/ \E t \in OneCaller : GetPageStore(t)
    \/ \E t \in OneCaller, n \in PageNumbers : CallUpdatePage(t, n)
    \/ \E t \in OneCaller : UpdateInvalidatePage(t)
    \/ \E t \in OneCaller : UpdateInvalidateQueries(t)
    \/ \E t \in OneCaller : CallCreatePage(t)
    \/ \E t \in OneCaller : CreateInvalidateQueries(t)
    \/ \E t \in OneCaller, d \in DatabaseArgs, f \in FilterArgs, s \in SortArgs,
          u \in BOOLEAN, l \in CacheTtlArgs : CallQueryDatabase(t, d, f, s, u, l)
    \/ \E t \in OneCaller : QueryStart(t)
    \/ \E t \in OneCaller : QueryPage(t)
    \/ \E t \in OneCaller : QueryStore(t)
    \/ \E t \in OneCaller : ExecLoop(t)
    \/ \E t \in OneCaller : WaitRead(t)
    \/ \E t \in OneCaller : WaitCompare(t)
    \/ \E t \in OneCaller : WaitSleep(t)
    \/ \E t \in OneCaller : WaitWrite(t)
    \/ \E t \in OneCaller : ExecCallOk(t)
    \/ \E t \in OneCaller : ExecCallFail(t)
    \/ \E t \in OneCaller : ExecBackoff(t)

Spec == Init /\ [][Next]_vars

\* caller t's call of method op has just returned (not raised)
JustReturned(t, op) ==
    /\ pc[t] = "idle"
    /\ call[t].op = op
    /\ obs[t].result.kind = "return"
    /\ obs[t].returned_at = now

\* the key of the read caller t has made
ReadKey(t) ==
    IF call[t].op = "get_page" THEN PageKey(call[t].page)
    ELSE QueryKey(call[t].database_id, call[t].filter, call[t].sorts)

\* caller t's read has just returned a value it took from the cache
JustHit(t) ==
    /\ JustReturned(t, "get_page") \/ JustReturned(t, "query_database")
    /\ obs[t].hit

\* C1: once update_page(p) has returned, a lookup of p's single-item cache
\* entry misses, and a get_page(p) that returns does not return a value older
\* than the remote's.
C1_WriteThenRead ==
    \A t \in DOMAIN pc :
        /\ JustReturned(t, "update_page")
              => CacheGet(cache, PageKey(call[t].page), NoInt, now) = PyNone
        /\ JustReturned(t, "get_page")
              => obs[t].result.value
                    = PyPage(PageId(call[t].page), remote[call[t].page])

\* whether a query_database call with these arguments would now take its
\* result from the cache
QueryHits(database_id, filter, sorts, cache_ttl) ==
    Truthy(CacheGet(cache, QueryKey(database_id, filter, sorts), cache_ttl, now))

\* C2: once update_page or create_page has returned, no query_database call,
\* whatever its (database, filter, sort) tuple, takes its result from the cache.
C2_WriteInvalidatesQueries ==
    \A t \in DOMAIN pc :
        (JustReturned(t, "update_page") \/ JustReturned(t, "create_page"))
        => \A d \in DatabaseArgs, f \in FilterArgs, s \in SortArgs :
              ~QueryHits(d, f, s, DefaultCacheTtl)

\* the keys of the cache under which a list, the result of a query, is stored
StoredQueryKeys == {k \in DOMAIN cache : JsonLoads(cache[k].value)[1] = "list"}

\* C15: the keys under which query_database has stored results begin with a
\* common prefix that no key of get_page begins with.
C15_KeyNamespaces ==
    StoredQueryKeys # {} =>
        \E k \in StoredQueryKeys :
            \E n \in 0 .. Len(k) :
                LET prefix == SubSeq(k, 1, n)
                IN  /\ \A q \in StoredQueryKeys : StartsWith(q, prefix)
                    /\ \A p \in PageNumbers : ~StartsWith(PageKey(p), prefix)

\* the cache holds an entry for the key of caller t's read that is within the
\* freshness bound of the read: get_page sets no bound, query_database sets
\* cache_ttl seconds
FreshEntry(t) ==
    /\ ReadKey(t) \in DOMAIN cache
    /\ \/ call[t].op = "get_page"
       \/ now - cache[ReadKey(t)].created_at <= call[t].cache_ttl * TicksPerSecond

\* caller t's read has just looked its key up and gone on to the network
JustMissed(t) ==
    /\ call[t].op \in {"get_page", "query_database"}
    /\ obs[t].missed
    /\ pc[t] = "x_loop" /\ obs[t].exec_calls = 1 /\ loc[t].attempt = 0

\* C20: with caching enabled, a read whose key has an entry within the
\* freshness bound does not go on to the network; the read returns the stored
\* value with no throttle acquisition and no remote call, and leaves the
\* cache as it found it.
C20_HitSkipsNetwork ==
    \A t \in DOMAIN pc :
        config.cache_enabled =>
            /\ JustMissed(t) => ~FreshEntry(t)
            /\ JustHit(t) => /\ obs[t].result.value = JsonLoads(cache[ReadKey(t)].value)
                             /\ obs[t].waits = 0
                             /\ obs[t].exec_calls = 0
                             /\ obs[t].outcomes = <<>>
                             /\ cache = obs[t].cache_before

\* C26: a get_page that misses and meets no failure makes one executor call
\* of one attempt, requests no page of a query, returns the page the remote
\* holds and leaves it stored under the single-item key of its id; a get_page
\* that finds an entry under that key when it starts, as the one that follows
\* immediately does, returns the stored page with no executor call, no
\* throttle acquisition and no remote call.
C26_SingleItemFetch ==
    \A t \in DOMAIN pc :
        LET key == PageKey(call[t].page)
        IN  /\ (JustReturned(t, "get_page") /\ obs[t].missed /\ obs[t].failures = 0)
                  => /\ obs[t].exec_calls = 1
                     /\ obs[t].outcomes = <<"ok">>
                     /\ obs[t].waits = 1
                     /\ obs[t].pages = <<>>
                     /\ obs[t].result.value
                           = PyPage(PageId(call[t].page), remote[call[t].page])
                     /\ key \in DOMAIN cache
                     /\ JsonLoads(cache[key].value) = obs[t].result.value
            /\ (/\ pc[t] = "idle" /\ call[t].op = "get_page" /\ call[t].use_cache
                 /\ key \in DOMAIN obs[t].cache_before)
                  => /\ obs[t].result = Returned(JsonLoads(obs[t].cache_before[key].value))
                     /\ obs[t].hit
                     /\ obs[t].exec_calls = 0
                     /\ obs[t].waits = 0
                     /\ obs[t].outcomes = <<>>

\* get_page has returned from the cache the page a get_page stored at this
\* same instant
C26_Witness ==
    \E t \in DOMAIN pc :
        /\ JustReturned(t, "get_page")
        /\ obs[t].hit
        /\ obs[t].exec_calls = 0
        /\ cache[PageKey(call[t].page)].created_at = now
        /\ obs[t].result.value = PyPage(PageId(call[t].page), remote[call[t].page])

\* C31: a read that finds under its key an entry stored at this very instant,
\* as the identical read that immediately follows a read from the remote
\* does, goes on to no remote call, whatever list or page the entry holds,
\* the empty list included.
C31_RequeryIsHit ==
    \A t \in DOMAIN pc :
        (/\ config.cache_enabled
         /\ JustMissed(t)
         /\ ReadKey(t) \in DOMAIN obs[t].cache_before)
        => obs[t].cache_before[ReadKey(t)].created_at # now

RECURSIVE Flatten(_)
\* the items of a sequence of pages, in page order
Flatten(pages) ==
    IF pages = <<>> THEN <<>> ELSE Head(pages).results \o Flatten(Tail(pages))

\* the number of pages the remote serves n items in
PagesFor(n) == IF n = 0 THEN 1 ELSE (n + PageSize - 1) \div PageSize

\* C10: a query_database call that missed the cache and met no failure made
\* one executor call per page the remote served (the last page alone without
\* has_more), returned the pages' items concatenated in page order, stored
\* that list under the query's key, and an immediate identical call takes
\* that same list from the cache.
C10_PaginatedRead ==
    \A t \in DOMAIN pc :
        (/\ JustReturned(t, "query_database")
         /\ obs[t].missed
         /\ obs[t].failures = 0)
        => LET key == QueryKey(call[t].database_id, call[t].filter, call[t].sorts)
               items == RemoteItems(remote, call[t].filter, call[t].sorts)
               k == Len(obs[t].pages)
           IN  /\ k = PagesFor(Len(items))
               /\ obs[t].exec_calls = k
               /\ \A i \in 1 .. k : obs[t].pages[i].has_more <=> i < k
               /\ obs[t].result.value = PyList(Flatten(obs[t].pages))
               /\ obs[t].result.value = PyList(items)
               /\ key \in DOMAIN cache
               /\ cache[key].value = JsonDumps(obs[t].result.value)
               /\ QueryHits(call[t].database_id, call[t].filter, call[t].sorts,
                            call[t].cache_ttl)
               /\ CacheGet(cache, key, call[t].cache_ttl, now) = obs[t].result.value

\* ---- one caller of the reads of the facade with their default arguments,
\* under either configuration, with long pauses between steps, and a remote
\* that answers every request

InitReads ==
    \E db \in StartDatabases, cfg \in Configs :
        InitConfigured(OneCaller, db, ReadsHorizon, cfg)

NextReads ==
    \/ TickWindow
    \/ \E t \in OneCaller, n \in PageNumbers : CallGetPage(t, n, TRUE)
    \/ \E t \in OneCaller : GetPageStart(t)
    \/ \E t \in OneCaller : GetPageStore(t)
    \/ \E t \in OneCaller, f \in FilterArgs :
          CallQueryDatabase(t, PyNone, f, PyNone, TRUE, DefaultCacheTtl)
    \/ \E t \in OneCaller : QueryStart(t)
    \/ \E t \in OneCaller : QueryPage(t)
    \/ \E t \in OneCaller : QueryStore(t)
    \/ \E t \in OneCaller : ExecLoop(t)
    \/ \E t \in OneCaller : WaitRead(t)
    \/ \E t \in OneCaller : WaitCompare(t)
    \/ \E t \in OneCaller : WaitSleep(t)
    \/ \E t \in OneCaller : WaitWrite(t)
    \/ \E t \in OneCaller : ExecCallOk(t)

SpecReads == InitReads /\ [][NextReads]_vars

\* C13: every value a read of the facade with default arguments returns from
\* the cache was stored at most the default TTL (300 s) before the read.
C13_BoundedStaleness ==
    \A t \in DOMAIN pc :
        (config.cache_enabled /\ JustHit(t))
        => now - cache[ReadKey(t)].created_at <= Window

\* C19: with cache_enabled false in the configuration, a read of the facade
\* with default arguments takes nothing from the cache, makes a remote
\* request, and leaves the cache as it found it.
C19_GlobalCacheSwitch ==
    \A t \in DOMAIN pc :
        (/\ ~config.cache_enabled
         /\ call[t].op \in {"get_page", "query_database"})
        => /\ ~obs[t].hit
           /\ cache = obs[t].cache_before
           /\ obs[t].result.kind = "return" => obs[t].exec_calls >= 1

\* the cache file an earlier run has left, in which get_page has stored the
\* given pages of the database db at time 0
CachedPages(db, pages) ==
    [k \in {PageKey(n) : n \in pages} |->
        LET n == CHOOSE m \in pages : PageKey(m) = k
        IN  Row(JsonDumps(PyPage(PageId(n), db[n])), 0, NoInt)]

\* the cache file an earlier run has left that read every page of the database
\* db and ran the query without filter and sort
CachedReads(db) ==
    LET pages == {n \in DOMAIN db : db[n] # Absent}
        key == QueryKey(PyNone, PyNone, PyNone)
        row == Row(JsonDumps(PyList(RemoteItems(db, PyNone, PyNone))), 0, NoInt)
    IN  [k \in DOMAIN CachedPages(db, pages) \cup {key} |->
            IF k = key THEN row ELSE CachedPages(db, pages)[k]]

\* ---- one caller of update_page and create_page, on a NotionAPI constructed
\* over the cache file of an earlier run

InitWrite ==
    \E db \in StartDatabases :
        /\ now = StartTime
        /\ horizon = WriteHorizon
        /\ keys = <<>>
        /\ tokens = 0
        /\ config = DefaultConfig
        /\ last_request_time = 0
        /\ prev_grant = NoInt
        /\ remote = db
        /\ cache = CachedReads(db)
        /\ pc = [t \in OneCaller |-> "idle"]
        /\ call = [t \in OneCaller |-> NoCall]
        /\ loc = [t \in OneCaller |-> NoLoc]
        /\ obs = [t \in OneCaller |-> NoObs]

NextWrite ==
    \/ \E t \in OneCaller, n \in PageNumbers : CallUpdatePage(t, n)
    \/ \E t \in OneCaller : UpdateInvalidatePage(t)
    \/ \E t \in OneCaller : UpdateInvalidateQueries(t)
    \/ \E t \in OneCaller : CallCreatePage(t)
    \/ \E t \in OneCaller : CreateInvalidateQueries(t)
    \/ \E t \in OneCaller : ExecLoop(t)
    \/ \E t \in OneCaller : WaitRead(t)
    \/ \E t \in OneCaller : WaitCompare(t)
    \/ \E t \in OneCaller : WaitSleep(t)
    \/ \E t \in OneCaller : WaitWrite(t)
    \/ \E t \in OneCaller : ExecCallOk(t)
    \/ \E t \in OneCaller : ExecCallFail(t)
    \/ \E t \in OneCaller : ExecBackoff(t)

SpecWrite == InitWrite /\ [][NextWrite]_vars

\* the remote call of caller t's write has not returned (yet, or at all)
NotWritten(t) == obs[t].outcomes = <<>> \/ LastOf(obs[t].outcomes) # "ok"

\* C18: update_page and create_page reach their invalidation steps only after
\* the remote call has returned; until then, and when the call ends by
\* raising (a fatal error, or retries exhausted), no invalidation has been
\* made and the cache is as the call found it.
C18_FailedWriteKeepsCache ==
    \A t \in DOMAIN pc :
        call[t].op \in {"update_page", "create_page"} =>
            /\ pc[t] \in {"u_inv1", "u_inv2", "c_inv"} => ~NotWritten(t)
            /\ NotWritten(t) => /\ obs[t].invalidations = 0
                                /\ cache = obs[t].cache_before
            /\ obs[t].result.kind = "raise" => NotWritten(t)

\* an update_page that exhausted its retries over a cache that holds entries
C18_Witness ==
    \E t \in DOMAIN pc :
        /\ call[t].op = "update_page"
        /\ obs[t].result.kind = "raise"
        /\ Len(obs[t].outcomes) = DefaultMaxRetries
        /\ obs[t].result.error \in Retryable
        /\ cache # <<>>
        /\ cache = obs[t].cache_before

\* ---- one caller of batch_update_pages, on a NotionAPI constructed over the
\* cache file of an earlier run that read every page

InitBatch ==
    /\ now = StartTime
    /\ horizon = BatchHorizon
    /\ keys = <<>>
    /\ tokens = 0
    /\ config = DefaultConfig
    /\ last_request_time = 0
    /\ prev_grant = NoInt
    /\ remote = [n \in BatchPageNumbers |-> 0]
    /\ cache = CachedPages(remote, BatchPageNumbers)
    /\ pc = [t \in OneCaller |-> "idle"]
    /\ call = [t \in OneCaller |-> NoCall]
    /\ loc = [t \in OneCaller |-> NoLoc]
    /\ obs = [t \in OneCaller |-> NoObs]

NextBatch ==
    \/ \E t \in OneCaller, u \in UpdatesArgs, d \in DelayArgs :
          CallBatchUpdatePages(t, u, d)
    \/ \E t \in OneCaller : BatchLoop(t)
    \/ \E t \in OneCaller : BatchExcept(t)
    \/ \E t \in OneCaller : BatchPace(t)
    \/ \E t \in OneCaller : UpdateInvalidatePage(t)
    \/ \E t \in OneCaller : UpdateInvalidateQueries(t)
    \/ \E t \in OneCaller : ExecLoop(t)
    \/ \E t \in OneCaller : WaitRead(t)
    \/ \E t \in OneCaller : WaitCompare(t)
    \/ \E t \in OneCaller : WaitSleep(t)
    \/ \E t \in OneCaller : WaitWrite(t)
    \/ \E t \in OneCaller : ExecCallOk(t)
    \/ \E t \in OneCaller : ExecCallFail(t)
    \/ \E t \in OneCaller : ExecBackoff(t)

SpecBatch == InitBatch /\ [][NextBatch]_vars

\* caller t's call of batch_update_pages has returned
BatchReturned(t) ==
    pc[t] = "idle" /\ call[t].op = "batch_update_pages"
                   /\ obs[t].result.kind = "return"

\* C16: a batch over 3 items whose pages were all cached beforehand, where the
\* update of item 2 fails with a fatal error on its first attempt and items 1
\* and 3 are updated, returns 3 results, success for items 1 and 3 and a
\* failure carrying the fatal error for item 2; the cached entries of items 1
\* and 3 are gone and the cached entry of item 2 is still there.
C16_BatchPartialFailure ==
    \A t \in DOMAIN pc :
        (/\ BatchReturned(t)
         /\ Len(call[t].updates) = 3
         /\ \A i \in 1 .. 3 : PageKey(call[t].updates[i]) \in DOMAIN obs[t].cache_before
         /\ Len(obs[t].ended) = 3
         /\ obs[t].ended[1][1] = "return"
         /\ obs[t].ended[2][1] = "raise"
         /\ obs[t].ended[2][2][1] \in Failures \ Retryable
         /\ obs[t].ended[3][1] = "return")
        => LET r == obs[t].result.value[2]
               u == call[t].updates
           IN  /\ Len(r) = 3
               /\ r[1].success /\ r[3].success
               /\ ~r[2].success /\ r[2].error = obs[t].ended[2][2][1]
               /\ PageKey(u[1]) \notin DOMAIN cache
               /\ PageKey(u[3]) \notin DOMAIN cache
               /\ PageKey(u[2]) \in DOMAIN cache

\* the positions of a caller inside a frame of update_page
UpdateFrames ==
    {"x_loop", "w_read", "w_cmp", "w_sleep", "w_write", "x_call", "x_backoff",
     "u_inv1", "u_inv2"}

\* C17: batch_update_pages starts the updates in input order, starts an item
\* only when the one before has ended, keeps one result per ended item, and
\* ends only by returning, after all n items, n results of which result i
\* carries the page id of input i and is a success iff update_page returned
\* for item i, and otherwise carries the error update_page raised.
C17_BatchOrdering ==
    \A t \in DOMAIN pc :
        call[t].op = "batch_update_pages" =>
            LET u == call[t].updates
                started == Len(obs[t].issued)
                done == Len(obs[t].ended)
            IN  /\ started <= Len(u)
                /\ obs[t].issued = SubSeq(u, 1, started)
                /\ done <= started /\ started <= done + 1
                /\ started = done + 1 <=> pc[t] \in UpdateFrames
                /\ pc[t] \in {"b_loop", "b_pace"} => Len(loc[t].batch) = done
                /\ pc[t] = "idle" =>
                      /\ obs[t].result.kind = "return"
                      /\ started = Len(u) /\ done = Len(u)
                      /\ Len(obs[t].result.value[2]) = Len(u)
                      /\ \A i \in 1 .. Len(u) :
                            LET r == obs[t].result.value[2][i]
                            IN  /\ r.page_id = PageId(u[i])
                                /\ r.success <=> obs[t].ended[i][1] = "return"
                                /\ ~r.success => r.error = LastOf(obs[t].ended[i][2])

\* a batch of three items of which the first and the last failed
C17_Witness ==
    \E t \in DOMAIN pc :
        /\ BatchReturned(t)
        /\ Len(call[t].updates) = 3
        /\ Len(obs[t].ended) = 3
        /\ obs[t].ended[1][1] = "raise"
        /\ obs[t].ended[2][1] = "return"
        /\ obs[t].ended[3][1] = "raise"
        /\ Len(obs[t].result.value[2]) = 3


\* ---- one caller of the facade whose every started operation runs to its end:
\* operations start up to LiveStartBy, and a thread that is inside an operation
\* keeps taking its steps

InitLive ==
    /\ now = StartTime
    /\ horizon = LiveHorizon
    /\ keys = <<>>
    /\ tokens = 0
    /\ config = DefaultConfig
    /\ last_request_time = 0
    /\ prev_grant = NoInt
    /\ cache = <<>>
    /\ remote = [n \in PageNumbers |-> IF n < PageCount THEN 0 ELSE Absent]
    /\ pc = [t \in OneCaller |-> "idle"]
    /\ call = [t \in OneCaller |-> NoCall]
    /\ loc = [t \in OneCaller |-> NoLoc]
    /\ obs = [t \in OneCaller |-> NoObs]

\* the next step of caller t inside the operation it has started
Proceed(t) ==
    \/ GetPageStart(t)
    \/ GetPageStore(t)
    \/ UpdateInvalidatePage(t)
    \/ UpdateInvalidateQueries(t)
    \/ CreateInvalidateQueries(t)
    \/ QueryStart(t)
    \/ QueryPage(t)
    \/ QueryStore(t)
    \/ BatchLoop(t)
    \/ BatchExcept(t)
    \/ BatchPace(t)
    \/ ExecLoop(t)
    \/ WaitRead(t)
    \/ WaitCompare(t)
    \/ WaitSleep(t)
    \/ WaitWrite(t)
    \/ ExecCallOk(t)
    \/ ExecCallFail(t)
    \/ ExecBackoff(t)

\* the updates lists of the liveness runs: no item, one item, two items
LiveUpdatesArgs == {<<>>, <<1>>, <<2, 1>>}

\* caller t starts an operation of the facade
Start(t) ==
    /\ now <= LiveStartBy
    /\ \/ \E n \in PageNumbers : CallGetPage(t, n, TRUE)
       \/ \E n \in PageNumbers : CallUpdatePage(t, n)
       \/ CallCreatePage(t)
       \/ \E f \in FilterArgs : CallQueryDatabase(t, PyNone, f, PyNone, TRUE, DefaultCacheTtl)
       \/ \E u \in LiveUpdatesArgs : CallBatchUpdatePages(t, u, DefaultDelayMs)

NextLive ==
    \/ \E t \in OneCaller : Start(t)
    \/ \E t \in OneCaller : Proceed(t)

\* the interpreter runs a thread that has a next step
SpecLive ==
    InitLive /\ [][NextLive]_vars /\ \A t \in OneCaller : WF_vars(Proceed(t))

\* the remote pages a query of caller t has received so far
Received(t) == obs[t].pages

\* C25: every operation of the facade that starts ends, by returning or by
\* raising; on the way each sleep of wait() is positive and at most
\* min_interval, each executor call makes at most max_retries attempts, and
\* query_database requests a further page only after pages that had has_more
\* set and ends at the first page that has not.
C25_Termination ==
    /\ [](\A t \in DOMAIN pc :
            /\ pc[t] = "w_sleep"
                 => (0 < loc[t].sleep_time /\ loc[t].sleep_time <= MinInterval)
            /\ pc[t] \in ExecutorFrames => Len(obs[t].outcomes) <= loc[t].max_retries
            /\ call[t].op = "query_database"
                 => /\ \A i \in 1 .. Len(Received(t)) - 1 : Received(t)[i].has_more
                    /\ (pc[t] \in ExecutorFrames /\ Received(t) # <<>>)
                         => LastOf(Received(t)).has_more
                    /\ (pc[t] = "idle" /\ obs[t].result.kind = "return"
                          /\ ~obs[t].hit)
                         => ~LastOf(Received(t)).has_more)
    /\ \A t \in OneCaller : (pc[t] # "idle") ~> (pc[t] = "idle")

\* a query that took two pages, the second at its third attempt, has returned
C25_Witness ==
    \E t \in DOMAIN pc :
        /\ pc[t] = "idle"
        /\ call[t].op = "query_database"
        /\ obs[t].result.kind = "return"
        /\ Len(Received(t)) = 2
        /\ Len(obs[t].outcomes) = 3


\* ---- one caller of a NotionAPI constructed with a configured rate
\* (RATE_LIMIT_RPS), reading pages past the cache

\* the rates the environment sets: requests per second
Rates == {1, 2, MaxRequestsPerSecond, TicksPerSecond}

\* Config() with RATE_LIMIT_RPS set
RateConfigs == {[DefaultConfig EXCEPT !.rate_limit_requests_per_second = r] : r \in Rates}

InitRates ==
    \E cfg \in RateConfigs :
        InitConfigured(OneCaller, [n \in PageNumbers |-> 0], RatesHorizon, cfg)

NextRates ==
    \/ Tick
    \/ \E t \in OneCaller, n \in PageNumbers : CallGetPage(t, n, FALSE)
    \/ \E t \in OneCaller : GetPageStart(t)
    \/ \E t \in OneCaller : GetPageStore(t)
    \/ \E t \in OneCaller : ExecLoop(t)
    \/ \E t \in OneCaller : WaitRead(t)
    \/ \E t \in OneCaller : WaitCompare(t)
    \/ \E t \in OneCaller : WaitSleep(t)
    \/ \E t \in OneCaller : WaitWrite(t)
    \/ \E t \in OneCaller : ExecCallOk(t)

SpecRates == InitRates /\ [][NextRates]_vars

\* 1 / (configured requests per second), in ticks
ConfiguredInterval == TicksPerSecond \div config.rate_limit_requests_per_second

\* C28: the limiter of a NotionAPI keeps the interval of the configured rate:
\* two consecutive grants, each followed by its remote call, are at least
\* 1 / config.rate_limit_requests_per_second apart, whatever rate is configured.
C28_ConfiguredRate ==
    prev_grant # NoInt => last_request_time - prev_grant >= ConfiguredInterval


\* ---- one caller of batch_update_pages over batches of 0, 1 and 3 items, with
\* a horizon that lets an item be retried before the batch sleeps its delay

\* the updates lists of the pacing runs
PaceUpdatesArgs == {<<>>, <<1>>, <<1, 2, 3>>}

InitPace ==
    /\ now = StartTime
    /\ horizon = PaceHorizon
    /\ keys = <<>>
    /\ tokens = 0
    /\ config = DefaultConfig
    /\ last_request_time = 0
    /\ prev_grant = NoInt
    /\ remote = [n \in {1, 2, 3} |-> 0]
    /\ cache = <<>>
    /\ pc = [t \in OneCaller |-> "idle"]
    /\ call = [t \in OneCaller |-> NoCall]
    /\ loc = [t \in OneCaller |-> NoLoc]
    /\ obs = [t \in OneCaller |-> NoObs]

NextPace ==
    \/ \E t \in OneCaller, u \in PaceUpdatesArgs, d \in DelayArgs :
          CallBatchUpdatePages(t, u, d)
    \/ \E t \in OneCaller : BatchLoop(t)
    \/ \E t \in OneCaller : BatchExcept(t)
    \/ \E t \in OneCaller : BatchPace(t)
    \/ \E t \in OneCaller : UpdateInvalidatePage(t)
    \/ \E t \in OneCaller : UpdateInvalidateQueries(t)
    \/ \E t \in OneCaller : ExecLoop(t)
    \/ \E t \in OneCaller : WaitRead(t)
    \/ \E t \in OneCaller : WaitCompare(t)
    \/ \E t \in OneCaller : WaitSleep(t)
    \/ \E t \in OneCaller : WaitWrite(t)
    \/ \E t \in OneCaller : ExecCallOk(t)
    \/ \E t \in OneCaller : ExecCallFail(t)
    \/ \E t \in OneCaller : ExecBackoff(t)

SpecPace == InitPace /\ [][NextPace]_vars

\* C32: batch_update_pages sleeps delay_between_requests once after each item
\* but the last, whether the item succeeded or failed and whatever the
\* throttle and the backoff have slept before: by the time i items have ended
\* it has slept min(i, n - 1) delays, each of the fixed length, and a batch
\* that has returned has slept n - 1 of them, or none when it is empty.
C32_BatchPacing ==
    /\ [](\A t \in DOMAIN pc :
            call[t].op = "batch_update_pages" =>
                LET n == Len(call[t].updates)
                    done == Len(obs[t].ended)
                    slept == Len(obs[t].delays)
                IN  /\ \A i \in 1 .. slept :
                          obs[t].delays[i] = call[t].delay_between_requests
                    /\ pc[t] \in {"b_except", "b_pace"} => slept = done - 1
                    /\ pc[t] \in UpdateFrames => slept = done
                    /\ pc[t] = "b_loop" => slept = Min(done, IF n = 0 THEN 0 ELSE n - 1)
                    /\ pc[t] = "idle"
                         => (done = n /\ slept = IF n = 0 THEN 0 ELSE n - 1))
    /\ [][\A t \in DOMAIN pc :
             (call[t].op = "batch_update_pages" /\ pc[t] = "b_pace" /\ pc'[t] # "b_pace")
             => now' - now = IF Len(obs[t].ended) < Len(call[t].updates)
                             THEN SleepTicks(call[t].delay_between_requests)
                             ELSE 0]_vars

\* a batch of three items has returned after two delays, its first item
\* having slept a backoff and its second having failed
C32_Witness ==
    \E t \in DOMAIN pc :
        /\ BatchReturned(t)
        /\ Len(call[t].updates) = 3
        /\ Len(obs[t].delays) = 2
        /\ Len(obs[t].ended[1][2]) = 2
        /\ obs[t].ended[2][1] = "raise"


\* C33: each page request of a query and each item of a batch runs the
\* executor afresh: its attempt index counts only the failures of this very
\* request, its budget is max_retries whatever the earlier requests of the
\* call have consumed, its backoffs start again at 1 s, and an item that ended
\* in an error had used its whole budget or met an error that is not retried.
C33_BudgetPerRequest ==
    \A t \in DOMAIN pc :
        call[t].op \in {"query_database", "batch_update_pages"} =>
            /\ pc[t] \in ExecutorFrames =>
                  /\ loc[t].max_retries = DefaultMaxRetries
                  /\ loc[t].attempt = IF pc[t] = "x_backoff"
                                      THEN Len(obs[t].outcomes) - 1
                                      ELSE Len(obs[t].outcomes)
                  /\ loc[t].attempt < DefaultMaxRetries
                  /\ \A k \in 1 .. Len(obs[t].sleeps) :
                        obs[t].sleeps[k] =
                            RetryDelay(obs[t].outcomes[k], k - 1, DefaultMaxRetries)
            /\ \A i \in 1 .. Len(obs[t].ended) :
                  LET o == obs[t].ended[i][2]
                  IN  /\ Len(o) \in 1 .. DefaultMaxRetries
                      /\ \A k \in 1 .. Len(o) - 1 : o[k] \in Retryable
                      /\ obs[t].ended[i][1] = "raise"
                           => (Len(o) = DefaultMaxRetries \/ LastOf(o) \notin Retryable)
                      /\ obs[t].ended[i][1] = "return" => LastOf(o) = "ok"

\* the second page request of a query is at its third attempt, after backoffs
\* of 1 s and 2 s of its own, the first page having been received at the
\* third attempt too: four failures over the call, more than one budget
C33_Witness ==
    \E t \in DOMAIN pc :
        /\ call[t].op = "query_database"
        /\ pc[t] = "x_call"
        /\ Len(obs[t].pages) = 1
        /\ obs[t].failures = 4
        /\ loc[t].attempt = 2
        /\ obs[t].sleeps = <<1, 2>>


\* ---- two callers of one NotionAPI, each in a thread of its own: t1 calls
\* query_database, t2 calls update_page; no remote call fails

Reader == "t1"

Writer == "t2"

InitRace ==
    InitWith(TwoCallers, [n \in PageNumbers |-> 0], RaceHorizon)

NextRace ==
    \/ CallQueryDatabase(Reader, PyNone, PyNone, PyNone, TRUE, DefaultCacheTtl)
    \/ \E n \in PageNumbers : CallUpdatePage(Writer, n)
    \/ \E t \in TwoCallers : QueryStart(t)
    \/ \E t \in TwoCallers : QueryPage(t)
    \/ \E t \in TwoCallers : QueryStore(t)
    \/ \E t \in TwoCallers : UpdateInvalidatePage(t)
    \/ \E t \in TwoCallers : UpdateInvalidateQueries(t)
    \/ \E t \in TwoCallers : ExecLoop(t)
    \/ \E t \in TwoCallers : WaitRead(t)
    \/ \E t \in TwoCallers : WaitCompare(t)
    \/ \E t \in TwoCallers : WaitSleep(t)
    \/ \E t \in TwoCallers : WaitWrite(t)
    \/ \E t \in TwoCallers : ExecCallOk(t)

SpecRace == InitRace /\ [][NextRace]_vars

\* C34: when an update_page has returned and the query_database that ran
\* beside it has ended, the entry under the query's key, if there is one,
\* holds the list the remote serves after the write, so that no later
\* query_database takes pre-write data from the cache.
C34_NoStaleQueryEntry ==
    \A r, w \in DOMAIN pc :
        (/\ r # w
         /\ pc[w] = "idle" /\ call[w].op = "update_page"
         /\ obs[w].result.kind = "return"
         /\ pc[r] = "idle" /\ call[r].op = "query_database")
        => (ReadKey(r) \in DOMAIN cache
            => cache[ReadKey(r)].value =
                 JsonDumps(PyList(RemoteItems(remote, call[r].filter, call[r].sorts))))


\* tables c and d hold the same under key: the same row, or none
SameEntry(c, d, key) ==
    /\ key \in DOMAIN c <=> key \in DOMAIN d
    /\ key \in DOMAIN c => c[key] = d[key]

\* C35: a query_database whose page request ends in an error, after however
\* many pages, ends by raising that error and returns no list, and from its
\* start until then the cache holds under the query's key exactly what the
\* call found there.
C35_FailedQueryKeepsCache ==
    \A t \in DOMAIN pc :
        call[t].op = "query_database" =>
            /\ pc[t] \in ExecutorFrames \cup {"q_start", "q_page"}
                 => SameEntry(cache, obs[t].cache_before, ReadKey(t))
            /\ (pc[t] \in ExecutorFrames /\ obs[t].outcomes # <<>>)
                 => LastOf(obs[t].outcomes) # "ok"
            /\ (pc[t] = "idle" /\ obs[t].failures > 0
                               /\ LastOf(obs[t].outcomes) # "ok")
                 => /\ obs[t].result = Raised(LastOf(obs[t].outcomes))
                    /\ obs[t].result.value = PyNone
                    /\ SameEntry(cache, obs[t].cache_before, ReadKey(t))

\* a query has ended raising the error of its second page request, the first
\* page having been received, and no entry is under its key
C35_Witness ==
    \E t \in DOMAIN pc :
        /\ pc[t] = "idle"
        /\ call[t].op = "query_database"
        /\ obs[t].missed
        /\ Len(obs[t].pages) = 1
        /\ obs[t].result.kind = "raise"
        /\ ReadKey(t) \notin DOMAIN cache


\* C36: whatever max_retries >= 0 it is given, _execute_with_retry ends by
\* returning the value of an attempt that succeeded or by raising the error
\* of an attempt that failed: it returns nothing the wrapped call has not
\* returned.
C36_NeverSilent ==
    \A t \in DOMAIN pc :
        (pc[t] = "idle" /\ call[t].op = "execute") =>
            /\ obs[t].outcomes # <<>>
            /\ obs[t].result.kind = "return"
                 => (LastOf(obs[t].outcomes) = "ok" /\ obs[t].result.value = FuncValue)
            /\ obs[t].result.kind = "raise"
                 => obs[t].result.error = LastOf(obs[t].outcomes)


\* C37: a freshness bound of 0 is applied like any other: get(key, 0) misses
\* on every entry of positive age, and query_database(cache_ttl=0) takes no
\* entry of positive age from the cache.
C37_ZeroMaxAge ==
    \A t \in DOMAIN pc :
        /\ (/\ call[t].op = "cache.get"
            /\ obs[t].returned_at = now
            /\ call[t].max_age = 0
            /\ call[t].key \in DOMAIN cache
            /\ cache[call[t].key].created_at < now)
             => obs[t].result.value = PyNone
        /\ (/\ JustReturned(t, "query_database")
            /\ obs[t].hit
            /\ call[t].cache_ttl = 0)
             => cache[ReadKey(t)].created_at = now


\* C38: two reads whose identity tuples (kind, target id, filter, sort)
\* differ get different keys from generate_key, a value given as the filter
\* with no sort and the same value given as the sort with no filter included.
C38_KeyInjective ==
    \A t1, t2 \in DOMAIN pc :
        (Generated(t1) /\ Generated(t2) /\ call[t1].args # call[t2].args)
        => obs[t1].result.value # obs[t2].result.value


\* ------------------------------------------------- key rotation manager

TicksPerHour == 60 * 60 * TicksPerSecond

TicksPerDay == 24 * TicksPerHour

Services == {"trading212"}

\* the expiry_days callers pass to create_key: None, one day, the default
ExpiryDaysArgs == {NoInt, 1, DefaultExpiryDays}

\* self.keys[service], or the empty list for a service the dict does not hold
KeysOf(k, service) == IF service \in DOMAIN k THEN k[service] ELSE <<>>

\* the dict k with list under service
WithKeys(k, service, list) ==
    [s \in DOMAIN k \cup {service} |-> IF s = service THEN list ELSE k[s]]

\* the lowest index of a set of list positions
FirstOf(indices) == CHOOSE i \in indices : \A j \in indices : i <= j

\* create_key: expires_at = None, or utcnow() + timedelta(days=expiry_days)
\* if expiry_days
KeyExpiresAt(expiry_days, clock) ==
    IF TruthyInt(expiry_days) THEN clock + expiry_days * TicksPerDay ELSE NoInt

\* create_key: the dict after the existing keys of the service are
\* deactivated and the new key, of version len + 1, is appended; a key that
\* has no grace_period_until or revoked_at entry holds NoInt there
CreateKey(k, service, expiry_days, key, clock) ==
    LET old == KeysOf(k, service)
        deactivated == [i \in 1 .. Len(old) |-> [old[i] EXCEPT !.is_active = FALSE]]
        api_key == [key |-> key,
                    version |-> Len(old) + 1,
                    created_at |-> clock,
                    expires_at |-> KeyExpiresAt(expiry_days, clock),
                    is_active |-> TRUE,
                    metadata |-> <<>>,
                    grace_period_until |-> NoInt,
                    revoked_at |-> NoInt]
    IN  WithKeys(k, service, Append(deactivated, api_key))

\* rotate_key: create_key(service), then the second to last key of the
\* service gets its grace_period_until
RotateKey(k, service, grace_period_hours, key, clock) ==
    LET created == CreateKey(k, service, DefaultExpiryDays, key, clock)
        n == Len(created[service])
    IN  IF n > 1
        THEN [created EXCEPT ![service][n - 1].grace_period_until =
                                 clock + grace_period_hours * TicksPerHour]
        ELSE created

\* validate_key: the first stored key equal to key decides
ValidateKey(k, service, key, clock) ==
    LET list == KeysOf(k, service)
        found == {i \in 1 .. Len(list) : list[i].key = key}
    IN  IF found = {} THEN FALSE
        ELSE LET api_key == list[FirstOf(found)]
             IN  IF /\ ~api_key.is_active
                    /\ \/ api_key.grace_period_until = NoInt
                       \/ clock > api_key.grace_period_until
                 THEN FALSE
                 ELSE IF api_key.expires_at # NoInt /\ clock > api_key.expires_at
                      THEN FALSE
                      ELSE TRUE

\* the positions of the keys of the service that carry the version
WithVersion(k, service, version) ==
    {i \in 1 .. Len(KeysOf(k, service)) : k[service][i].version = version}

\* get_key_info: the first key of the version, without the key itself
GetKeyInfo(k, service, version) ==
    IF WithVersion(k, service, version) = {} THEN PyNone
    ELSE LET api_key == k[service][FirstOf(WithVersion(k, service, version))]
         IN  [version |-> api_key.version, created_at |-> api_key.created_at,
              expires_at |-> api_key.expires_at, is_active |-> api_key.is_active,
              metadata |-> api_key.metadata]

\* revoke_key: the first key of the version is deactivated and gets its
\* revoked_at
RevokeKey(k, service, version, clock) ==
    IF WithVersion(k, service, version) = {} THEN k
    ELSE LET i == FirstOf(WithVersion(k, service, version))
         IN  [k EXCEPT ![service][i].is_active = FALSE,
                       ![service][i].revoked_at = clock]

\* cleanup_expired_keys keeps a key that has no expires_at, or one in the future
Unexpired(api_key, clock) ==
    api_key.expires_at = NoInt \/ api_key.expires_at > clock

\* cleanup_expired_keys: the keys of the service that are kept, in order
CleanupExpiredKeys(k, service, clock) ==
    IF service \notin DOMAIN k THEN k
    ELSE LET list == k[service]
             kept == {i \in 1 .. Len(list) : Unexpired(list[i], clock)}
             F[n \in 0 .. Len(list)] ==
                 IF n = 0 THEN <<>>
                 ELSE IF n \in kept THEN Append(F[n - 1], list[n]) ELSE F[n - 1]
         IN  [k EXCEPT ![service] = F[Len(list)]]

\* caller t's call c of a method of the manager returns v
ManagerCallReturns(t, c, v) ==
    /\ pc[t] = "idle"
    /\ call' = [call EXCEPT ![t] = c]
    /\ obs' = [obs EXCEPT ![t] = [NoObs EXCEPT !.result = Returned(v),
                                               !.returned_at = now]]
    /\ UNCHANGED <<now, horizon, config, last_request_time, prev_grant, cache, remote, pc, loc>>

\* manager.create_key(service, expiry_days=expiry_days): the key is the next
\* one secrets.token_urlsafe generates
CreateKeyCall(t, service, expiry_days) ==
    /\ tokens < MaxTokens
    /\ tokens' = tokens + 1
    /\ keys' = CreateKey(keys, service, expiry_days, tokens + 1, now)
    /\ ManagerCallReturns(t, [NoCall EXCEPT !.op = "create_key", !.service = service,
                                            !.expiry_days = expiry_days],
                          tokens + 1)

\* manager.rotate_key(service)
RotateKeyCall(t, service) ==
    /\ tokens < MaxTokens
    /\ tokens' = tokens + 1
    /\ keys' = RotateKey(keys, service, DefaultGraceHours, tokens + 1, now)
    /\ ManagerCallReturns(t, [NoCall EXCEPT !.op = "rotate_key", !.service = service,
                                            !.grace_period_hours = DefaultGraceHours],
                          tokens + 1)

\* manager.validate_key(service, key)
ValidateKeyCall(t, service, key) ==
    /\ ManagerCallReturns(t, [NoCall EXCEPT !.op = "validate_key", !.service = service,
                                            !.api_key = key],
                          ValidateKey(keys, service, key, now))
    /\ UNCHANGED <<keys, tokens>>

\* manager.get_key_info(service, version)
GetKeyInfoCall(t, service, version) ==
    /\ ManagerCallReturns(t, [NoCall EXCEPT !.op = "get_key_info", !.service = service,
                                            !.version = version],
                          GetKeyInfo(keys, service, version))
    /\ UNCHANGED <<keys, tokens>>

\* manager.revoke_key(service, version)
RevokeKeyCall(t, service, version) ==
    /\ keys' = RevokeKey(keys, service, version, now)
    /\ ManagerCallReturns(t, [NoCall EXCEPT !.op = "revoke_key", !.service = service,
                                            !.version = version],
                          WithVersion(keys, service, version) # {})
    /\ UNCHANGED tokens

\* manager.cleanup_expired_keys(service)
CleanupExpiredKeysCall(t, service) ==
    /\ keys' = CleanupExpiredKeys(keys, service, now)
    /\ ManagerCallReturns(t, [NoCall EXCEPT !.op = "cleanup_expired_keys",
                                            !.service = service],
                          Len(KeysOf(keys, service))
                              - Len(KeysOf(CleanupExpiredKeys(keys, service, now), service)))
    /\ UNCHANGED tokens

\* a day passes
TickDay ==
    /\ now + TicksPerDay <= horizon
    /\ now' = now + TicksPerDay
    /\ UNCHANGED <<horizon, config, last_request_time, prev_grant, cache, remote, pc, call, loc,
                   obs, keys, tokens>>

\* ---- one caller of a KeyRotationManager that starts with no keys

InitRotation ==
    InitWith(OneCaller, NoDatabase, StartTime + RotationDays * TicksPerDay)

NextRotation ==
    \/ TickDay
    \/ \E t \in OneCaller, s \in Services, d \in ExpiryDaysArgs : CreateKeyCall(t, s, d)
    \/ \E t \in OneCaller, s \in Services : RotateKeyCall(t, s)
    \/ \E t \in OneCaller, s \in Services, key \in 1 .. MaxTokens : ValidateKeyCall(t, s, key)
    \/ \E t \in OneCaller, s \in Services, v \in 1 .. MaxTokens : GetKeyInfoCall(t, s, v)
    \/ \E t \in OneCaller, s \in Services, v \in 1 .. MaxTokens : RevokeKeyCall(t, s, v)
    \/ \E t \in OneCaller, s \in Services : CleanupExpiredKeysCall(t, s)

SpecRotation == InitRotation /\ [][NextRotation]_vars

\* C39: a key that revoke_key has revoked is never again accepted by
\* validate_key, whether or not it had been rotated out and is inside its
\* grace period: a validate_key of a stored key that carries a revoked_at
\* returns False.
C39_RevocationFinal ==
    \A t \in DOMAIN pc :
        (/\ call[t].op = "validate_key"
         /\ obs[t].returned_at = now
         /\ \E i \in 1 .. Len(KeysOf(keys, call[t].service)) :
               /\ keys[call[t].service][i].key = call[t].api_key
               /\ keys[call[t].service][i].revoked_at # NoInt)
        => obs[t].result.value = FALSE

\* C40: at any time at most one stored key of a service is active, and it is
\* the key created last, and no two stored keys of the service carry the
\* same version.
C40_OneActiveUniqueVersions ==
    \A s \in DOMAIN keys :
        /\ \A i \in 1 .. Len(keys[s]) :
              keys[s][i].is_active => (i = Len(keys[s]) /\ keys[s][i].key = tokens)
        /\ \A i, j \in 1 .. Len(keys[s]) :
              keys[s][i].version = keys[s][j].version => i = j

====
